---------------------------- MODULE Spec2Model ----------------------------
(***************************************************************************)
(* Venom pass scheduling and memory management (vyper/venom).              *)
(*                                                                         *)
(* The module holds one state machine per component, each with its own     *)
(* specification:                                                          *)
(*   SpecOrder    validate_pass_order on a pass sequence                   *)
(*   SpecBuild    _build_fn_pass_pipeline (flag filtering + validation)    *)
(*   SpecRun      run_passes_on and the recursive per-function driver      *)
(*   SpecMem      the memory concretization allocator                      *)
(*   SpecReadonly ReadonlyMemoryArgsAnalysisPass                           *)
(* A specification leaves the variables of the other components at Idle.   *)
(***************************************************************************)
EXTENDS Integers, Sequences, FiniteSets, TLC

VARIABLES
    \* ---- pass ordering (pass_order.py, venom/__init__.py) ----
    registry,       \* class name -> its four declared ordering relations
    passes,         \* the sequence of pass class names handed to the operation
    pipeline_name,  \* the pipeline_name argument of validate_pass_order
    flags,          \* the set of disable_* flags that are set
    result,         \* Pending, or what the operation returned / raised
    \* ---- run_passes_on (venom/__init__.py) ----
    callees,        \* fcg.get_callees: function -> sequence of callees
    functions,      \* ctx.functions (names)
    pc,             \* position inside run_passes_on
    stack,          \* the recursion stack of _run_fn_passes_r
    visited,        \* the visited set of _run_fn_passes_r
    ran,            \* log of pass executions, in order
    \* ---- memory concretization ----
    program,        \* the instructions of the function being concretized
    alloca_size,    \* allocation site -> byte size
    livesets,       \* allocation site -> set of live instruction positions
    allocated,      \* allocation site -> assigned offset (mem_allocator.allocated)
    \* ---- readonly memory args analysis ----
    ctx,            \* function name -> IR function
    readonly_by_fn, \* function name -> tuple of booleans
    ro_pc,          \* position inside run_pass
    changed,        \* the loop flag of run_pass
    readonly_idxs,  \* function name -> _readonly_memory_invoke_arg_idxs
    \* ---- invoke copy forwarding passes ----
    original,       \* the caller's block as handed to the pass
    body,           \* the caller's block, rewritten in place by the pass
    callee_meta,    \* function name -> readonly idxs and invoke metadata
    fw_pc,          \* position: before or after run_pass
    fw_cache,       \* analyses_cache of the function: the analyses it holds
    sweep_at,       \* run_pass: the instruction the for loop has come to
    iter_changed,   \* run_pass: iter_changed
    fw_changed,     \* run_pass: changed
    sweeps,         \* run_pass: iterations of the while loop begun so far
    \* ---- tail merge ----
    before,         \* the function's blocks and the data segment before the pass
    blocks,         \* function.get_basic_blocks(): sequence of [label, instructions]
    data_segment,   \* the data items of ctx.data_segment
    tm_pc,          \* position: before or after run_pass
    tm_cache,       \* analyses_cache of the function: the analyses it holds
    \* ---- calling convention ----
    func_t,         \* the internal function type: return type and arguments
    via_stack,      \* what pass_via_stack returned: argument position -> bool
    cc_pc           \* position: before or after pass_via_stack

ordVars == <<registry, passes, pipeline_name, flags, result>>
runVars == <<callees, functions, pc, stack, visited, ran>>
memVars == <<program, alloca_size, livesets, allocated>>
roVars  == <<ctx, readonly_by_fn, ro_pc, changed, readonly_idxs>>
fwVars  == <<original, body, callee_meta, fw_pc, fw_cache,
             sweep_at, iter_changed, fw_changed, sweeps>>
tmVars  == <<before, blocks, data_segment, tm_pc, tm_cache>>
ccVars  == <<func_t, via_stack, cc_pc>>
vars    == <<ordVars, runVars, memVars, roVars, fwVars, tmVars, ccVars>>

Idle == "idle"

\* The outcome of a call: not made yet, returned `value`, or raised
\* CompilerPanic(message).
Pending == [status |-> "pending", message |-> <<>>, value |-> <<>>]

OrdIdle == /\ registry = Idle /\ passes = Idle /\ pipeline_name = Idle
           /\ flags = Idle /\ result = Idle
RunIdle == /\ callees = Idle /\ functions = Idle /\ pc = Idle
           /\ stack = Idle /\ visited = Idle /\ ran = Idle
MemIdle == /\ program = Idle /\ alloca_size = Idle /\ livesets = Idle
           /\ allocated = Idle
RoIdle  == /\ ctx = Idle /\ readonly_by_fn = Idle /\ ro_pc = Idle
           /\ changed = Idle /\ readonly_idxs = Idle
SweepIdle == /\ sweep_at = Idle /\ iter_changed = Idle
             /\ fw_changed = Idle /\ sweeps = Idle
FwIdle  == /\ original = Idle /\ body = Idle /\ callee_meta = Idle
           /\ fw_pc = Idle /\ fw_cache = Idle /\ SweepIdle
TmIdle  == /\ before = Idle /\ blocks = Idle /\ data_segment = Idle
           /\ tm_pc = Idle /\ tm_cache = Idle
CcIdle  == /\ func_t = Idle /\ via_stack = Idle /\ cc_pc = Idle

(***************************************************************************)
(* Generic helpers.                                                        *)
(***************************************************************************)
Range(s) == {s[i] : i \in 1..Len(s)}

SeqsUpTo(S, n) == UNION {[1..k -> S] : k \in 0..n}

Min(S) == CHOOSE x \in S : \A y \in S : x <= y

(***************************************************************************)
(* Pass ordering contract: base_pass.py, pass_order.py                     *)
(***************************************************************************)

\* Longest pass sequence handed to the validator.
MaxLen == 3

\* IRPass: the class attributes' defaults (no constraint declared).
NoDecl ==
    [required_predecessors |-> <<>>,
     required_successors |-> <<>>,
     required_immediate_predecessors |-> <<>>,
     required_immediate_successors |-> <<>>]

\* TailMergePass as declared in tail_merge.py.
TailMergeDecl ==
    [NoDecl EXCEPT !.required_immediate_successors = <<"SimplifyCFGPass">>]

\* The pass classes of the model.  Index in a pipeline is Python's idx + 1.
PassNames == {"TailMergePass", "SimplifyCFGPass", "CSE"}

\* Neighbour placeholders of _validate_immediate.
StartMark == "<start>"
EndMark == "<end>"

\* f"{idx}" for the indices the model reaches.
IntStr(n) == <<"0", "1", "2", "3", "4", "5", "6", "7", "8", "9">>[n + 1]

\* ", ".join(expected)
RECURSIVE JoinComma(_)
JoinComma(s) ==
    IF Len(s) = 0 THEN <<>>
    ELSE IF Len(s) = 1 THEN <<s[1]>>
    ELSE <<s[1], ", ">> \o JoinComma(Tail(s))

NoActual == <<>>

\* The CompilerPanic of _raise_pass_order_error; the message is kept as the
\* sequence of the pieces the f-strings concatenate.
RaisePassOrderErrorAppendsActual(idx, pass_cls, expected, relation, name, actual) ==
    [status |-> "raised", value |-> <<>>,
     message |->
        <<"Invalid Venom pass ordering in '", name, "': ", pass_cls,
          " (index ", IntStr(idx), ") ", relation, " one of [">>
        \o JoinComma(expected) \o <<"].">>
        \o <<" Got ", IF actual = NoActual THEN "None" ELSE actual[1], " instead.">>]

RaisePassOrderError(idx, pass_cls, expected, relation, name, actual) ==
    [status |-> "raised", value |-> <<>>,
     message |->
        <<"Invalid Venom pass ordering in '", name, "': ", pass_cls,
          " (index ", IntStr(idx), ") ", relation, " one of [">>
        \o JoinComma(expected) \o <<"].">>
        \o (IF actual # NoActual THEN <<" Got ", actual[1], " instead.">> ELSE <<>>)]

\* A call that returned None.
Returned == [status |-> "returned", message |-> <<>>, value |-> <<>>]

\* _index_pass_positions: first and last (1-based) position per name.
IndexPassPositions(pass_names) ==
    [first_idx |->
        [n \in Range(pass_names) |->
            Min({i \in 1..Len(pass_names) : pass_names[i] = n})],
     last_idx |->
        [n \in Range(pass_names) |->
            -Min({-i : i \in {j \in 1..Len(pass_names) : pass_names[j] = n}})]]

ValidateNonImmediateNonStrict(pass_names, i, refs, name, direction, pos) ==
    LET candidates == refs
        is_satisfied ==
            IF direction = "before"
            THEN \E k \in 1..Len(candidates) :
                    /\ candidates[k] \in DOMAIN pos.first_idx
                    /\ pos.first_idx[candidates[k]] <= i
            ELSE \E k \in 1..Len(candidates) :
                    /\ candidates[k] \in DOMAIN pos.last_idx
                    /\ pos.last_idx[candidates[k]] >= i
        relation == IF direction = "before" THEN "must run after"
                    ELSE "must run before"
    IN  IF Len(candidates) = 0 \/ is_satisfied THEN Returned
        ELSE RaisePassOrderError(i - 1, pass_names[i], candidates, relation,
                                 name, NoActual)

\* _validate_non_immediate for the pass at position i.
ValidateNonImmediate(pass_names, i, refs, name, direction, pos) ==
    LET candidates == refs
        is_satisfied ==
            IF direction = "before"
            THEN \E k \in 1..Len(candidates) :
                    /\ candidates[k] \in DOMAIN pos.first_idx
                    /\ pos.first_idx[candidates[k]] < i
            ELSE \E k \in 1..Len(candidates) :
                    /\ candidates[k] \in DOMAIN pos.last_idx
                    /\ pos.last_idx[candidates[k]] > i
        relation == IF direction = "before" THEN "must run after"
                    ELSE "must run before"
    IN  IF Len(candidates) = 0 \/ is_satisfied THEN Returned
        ELSE RaisePassOrderError(i - 1, pass_names[i], candidates, relation,
                                 name, NoActual)

\* _validate_immediate for the pass at position i.
ValidateImmediate(pass_names, i, refs, name, direction) ==
    LET candidates == refs
        relation == IF direction = "before" THEN "must run immediately after"
                    ELSE "must run immediately before"
        actual ==
            IF direction = "before"
            THEN (IF i > 1 THEN pass_names[i - 1] ELSE StartMark)
            ELSE (IF i + 1 <= Len(pass_names) THEN pass_names[i + 1] ELSE EndMark)
    IN  IF Len(candidates) = 0 THEN Returned
        ELSE IF actual \in Range(candidates) THEN Returned
        ELSE RaisePassOrderError(i - 1, pass_names[i], candidates, relation,
                                 name, <<actual>>)

\* The four checks of one loop iteration of validate_pass_order, in order.
ChecksAt(reg, pass_names, i, name, pos) ==
    LET d == reg[pass_names[i]]
    IN  <<ValidateNonImmediate(pass_names, i, d.required_predecessors, name,
                               "before", pos),
          ValidateNonImmediate(pass_names, i, d.required_successors, name,
                               "after", pos),
          ValidateImmediate(pass_names, i, d.required_immediate_predecessors,
                            name, "before"),
          ValidateImmediate(pass_names, i, d.required_immediate_successors,
                            name, "after")>>

\* The first exception raised by a sequence of calls, if any.
FirstPanic(rs) ==
    IF \E k \in 1..Len(rs) : rs[k].status = "raised"
    THEN rs[Min({k \in 1..Len(rs) : rs[k].status = "raised"})]
    ELSE Returned

\* validate_pass_order(pass_classes, pipeline_name)
ValidatePassOrder(reg, pass_names, name) ==
    LET pos == IndexPassPositions(pass_names)
    IN  FirstPanic([i \in 1..Len(pass_names) |->
                        FirstPanic(ChecksAt(reg, pass_names, i, name, pos))])


(***************************************************************************)
(* SpecOrder: validate_pass_order as unit validation of a pass sequence.   *)
(* The ordering relations are class attributes; the repository's tests set *)
(* them freely, so Init draws them.                                        *)
(***************************************************************************)

\* Candidate tuples a relation may declare (a PassRef is a str or a class).
RefTuples ==
    {<<>>, <<"SimplifyCFGPass">>, <<"TailMergePass">>,
     <<"CSE", "SimplifyCFGPass">>, <<StartMark>>, <<EndMark>>}

AllDecls ==
    [required_predecessors : RefTuples,
     required_successors : RefTuples,
     required_immediate_predecessors : RefTuples,
     required_immediate_successors : RefTuples]

Relations == {"required_predecessors", "required_successors",
              "required_immediate_predecessors", "required_immediate_successors"}

DeclaredRelations(d) == {r \in Relations : d[r] # <<>>}

\* Most relations one class declares beside the all-four declaration.
MaxDeclared == 2

AllFourDecl ==
    [required_predecessors |-> <<"SimplifyCFGPass">>,
     required_successors |-> <<"CSE", "SimplifyCFGPass">>,
     required_immediate_predecessors |-> <<"CSE", "SimplifyCFGPass">>,
     required_immediate_successors |-> <<"SimplifyCFGPass">>]

\* Declarations drawn for TailMergePass.
TailMergeDecls ==
    {d \in AllDecls : Cardinality(DeclaredRelations(d)) <= MaxDeclared}
        \cup {AllFourDecl}

\* Declarations drawn for SimplifyCFGPass.
SimplifyCFGDecls ==
    {NoDecl,
     [NoDecl EXCEPT !.required_predecessors = <<"TailMergePass">>],
     [NoDecl EXCEPT !.required_successors = <<"TailMergePass">>],
     [NoDecl EXCEPT !.required_immediate_predecessors = <<"TailMergePass">>],
     [NoDecl EXCEPT !.required_immediate_successors = <<"CSE", "SimplifyCFGPass">>]}

Registries ==
    {[n \in PassNames |->
         IF n = "TailMergePass" THEN dt
         ELSE IF n = "SimplifyCFGPass" THEN ds ELSE NoDecl] :
        dt \in TailMergeDecls, ds \in SimplifyCFGDecls}

InitOrder ==
    /\ registry \in Registries
    /\ passes \in SeqsUpTo(PassNames, MaxLen)
    /\ pipeline_name = "test"
    /\ flags = {}
    /\ result = Pending
    /\ RunIdle /\ MemIdle /\ RoIdle /\ FwIdle /\ TmIdle /\ CcIdle

\* validate_pass_order(passes, pipeline_name="test")
Validate ==
    /\ result = Pending
    /\ result' = ValidatePassOrder(registry, passes, pipeline_name)
    /\ UNCHANGED <<registry, passes, pipeline_name, flags>>
    /\ UNCHANGED <<runVars, memVars, roVars, fwVars, tmVars, ccVars>>

NextOrder == Validate

SpecOrder == InitOrder /\ [][NextOrder]_vars


(***************************************************************************)
(* What the ordering contract means, stated over the sequence itself.      *)
(***************************************************************************)
Immediate == {"required_immediate_predecessors", "required_immediate_successors"}

\* Relation r, declared with candidates refs by the pass at position i of
\* ps, is satisfied by a pass of the sequence.
Satisfies(ps, i, r, refs) ==
    CASE r = "required_predecessors" ->
            \E j \in 1..(i - 1) : ps[j] \in Range(refs)
      [] r = "required_successors" ->
            \E j \in (i + 1)..Len(ps) : ps[j] \in Range(refs)
      [] r = "required_immediate_predecessors" ->
            i > 1 /\ ps[i - 1] \in Range(refs)
      [] r = "required_immediate_successors" ->
            i < Len(ps) /\ ps[i + 1] \in Range(refs)

RelationHolds(reg, ps, i, r) ==
    reg[ps[i]][r] = <<>> \/ Satisfies(ps, i, r, reg[ps[i]][r])

AllRelationsHold(reg, ps) ==
    \A i \in 1..Len(ps) : \A r \in Relations : RelationHolds(reg, ps, i, r)

RelationText(r) ==
    CASE r = "required_predecessors" -> "must run after"
      [] r = "required_successors" -> "must run before"
      [] r = "required_immediate_predecessors" -> "must run immediately after"
      [] r = "required_immediate_successors" -> "must run immediately before"

\* The neighbour an immediate relation looks at.
Neighbour(ps, i, r) ==
    IF r = "required_immediate_predecessors"
    THEN (IF i > 1 THEN ps[i - 1] ELSE "<start>")
    ELSE (IF i < Len(ps) THEN ps[i + 1] ELSE "<end>")

\* The message the contract asks for when relation r of position i fails.
ExpectedMessage(reg, ps, name, i, r) ==
    <<"Invalid Venom pass ordering in '", name, "': ", ps[i],
      " (index ", IntStr(i - 1), ") ", RelationText(r), " one of [">>
    \o JoinComma(reg[ps[i]][r]) \o <<"].">>
    \o (IF r \in Immediate
        THEN <<" Got ", Neighbour(ps, i, r), " instead.">> ELSE <<>>)

Raised == result.status = "raised"
ReturnedOk == result.status = "returned"

\* C1: validate_pass_order returns without raising iff every relation of
\* every position is empty or satisfied by a candidate in the sequence, and
\* otherwise the panic names a pass that declared an unsatisfied relation.
C1_ValidateIffAllSatisfied ==
    result.status # "pending" =>
        /\ ReturnedOk <=> AllRelationsHold(registry, passes)
        /\ Raised =>
              \E i \in 1..Len(passes) :
                 /\ result.message[4] = passes[i]
                 /\ \E r \in Relations : ~RelationHolds(registry, passes, i, r)

NonImmediate == {"required_predecessors", "required_successors"}

\* C2: predecessors/successors are strict and checked per occurrence: a
\* sequence is accepted only if every occurrence with a non-empty relation
\* has a candidate strictly before (after) it; a reported non-immediate
\* failure is a real one, so any one candidate strictly before (after)
\* suffices; the occurrence itself never counts.
C2_NonImmediateStrict ==
    result.status # "pending" =>
        /\ ReturnedOk =>
              \A i \in 1..Len(passes) : \A r \in NonImmediate :
                  RelationHolds(registry, passes, i, r)
        /\ \A i \in 1..Len(passes) : \A r \in NonImmediate :
              (/\ Raised
               /\ result.message[4] = passes[i]
               /\ result.message[6] = IntStr(i - 1)
               /\ result.message[8] = RelationText(r))
              => ~RelationHolds(registry, passes, i, r)

\* A pass requiring the same class before and after it, accepted between two
\* occurrences of that class ([MakeSSA, Mem2Var, MakeSSA]).
C2_Witness ==
    /\ ReturnedOk
    /\ passes = <<"SimplifyCFGPass", "TailMergePass", "SimplifyCFGPass">>
    /\ registry["TailMergePass"].required_predecessors = <<"SimplifyCFGPass">>
    /\ registry["TailMergePass"].required_successors = <<"SimplifyCFGPass">>

\* C3: an immediate relation is satisfied only by the pass at exactly i-1
\* (i+1): for every declared candidate tuple a non-empty immediate
\* predecessor relation at the first position, or immediate successor
\* relation at the last position, is rejected, and a candidate elsewhere in
\* the pipeline does not help.
C3_ImmediateOnlyNeighbour ==
    ReturnedOk =>
        \A i \in 1..Len(passes) : \A r \in Immediate :
            RelationHolds(registry, passes, i, r)

\* C4: every ordering failure carries the pipeline name, the offending pass
\* and its index, the violated relation and the expected candidates; the
\* actual neighbour and the closing "instead." appear for immediate
\* relations only, and nothing follows them.
C4_PanicMessage ==
    Raised =>
        /\ \E i \in 1..Len(passes) : \E r \in Relations :
              /\ ~RelationHolds(registry, passes, i, r)
              /\ result.message =
                     ExpectedMessage(registry, passes, pipeline_name, i, r)
        /\ (result.message[Len(result.message)] = " instead.")
              <=> (result.message[8] \in {RelationText(r) : r \in Immediate})
        /\ "Pipeline context:" \notin Range(result.message)

\* An immediate-successor failure with two expected candidates.
C4_Witness ==
    /\ Raised
    /\ result.message[8] = "must run immediately before"
    /\ result.message[11] = ", "
    /\ result.message[Len(result.message)] = " instead."
    /\ result.message[Len(result.message) - 1] \in PassNames


(***************************************************************************)
(* Pipeline construction: venom/__init__.py                                *)
(***************************************************************************)

\* PASS_FLAG_MAP: pass class -> the name of its disable flag.
PASS_FLAG_MAP ==
    [p \in {"AlgebraicOptimizationPass", "SCCP", "Mem2Var", "LoadElimination",
            "RemoveUnusedVariablesPass", "DeadStoreElimination",
            "BranchOptimizationPass", "CSE", "SimplifyCFGPass",
            "AssertEliminationPass"} |->
        CASE p = "AlgebraicOptimizationPass" -> "disable_algebraic_optimization"
          [] p = "SCCP" -> "disable_sccp"
          [] p = "Mem2Var" -> "disable_mem2var"
          [] p = "LoadElimination" -> "disable_load_elimination"
          [] p = "RemoveUnusedVariablesPass" -> "disable_remove_unused_variables"
          [] p = "DeadStoreElimination" -> "disable_dead_store_elimination"
          [] p = "BranchOptimizationPass" -> "disable_branch_optimization"
          [] p = "CSE" -> "disable_cse"
          [] p = "SimplifyCFGPass" -> "disable_simplify_cfg"
          [] p = "AssertEliminationPass" -> "disable_assert_elimination"]

\* The loop of _build_fn_pass_pipeline: skip a pass whose flag is set.
RECURSIVE FilterPasses(_, _)
FilterPasses(static, fl) ==
    IF static = <<>> THEN <<>>
    ELSE LET pass_cls == Head(static)
             skip == /\ pass_cls \in DOMAIN PASS_FLAG_MAP
                     /\ PASS_FLAG_MAP[pass_cls] \in fl
         IN  (IF skip THEN <<>> ELSE <<pass_cls>>)
                 \o FilterPasses(Tail(static), fl)

BuildFnPassPipelineValidatesStatic(reg, static, fl, level) ==
    LET pass_pipeline == FilterPasses(static, fl)
        v == ValidatePassOrder(reg, static, level)
    IN  IF v.status = "raised" THEN v
        ELSE [status |-> "returned", message |-> <<>>, value |-> pass_pipeline]

\* _build_fn_pass_pipeline(flags), static = OPTIMIZATION_PASSES[flags.level]
BuildFnPassPipeline(reg, static, fl, level) ==
    LET pass_pipeline == FilterPasses(static, fl)
        v == ValidatePassOrder(reg, pass_pipeline, level)
    IN  IF v.status = "raised" THEN v
        ELSE [status |-> "returned", message |-> <<>>, value |-> pass_pipeline]

\* str(flags.level) of the three tiers.
LevelNames == {"OptimizationLevel.O2", "OptimizationLevel.O3", "OptimizationLevel.Os"}

\* The disable flags the model toggles.
BuildFlags == {"disable_simplify_cfg", "disable_cse"}

BuildRegistries ==
    {[n \in PassNames |->
         IF n = "TailMergePass" THEN dt
         ELSE IF n = "SimplifyCFGPass" THEN ds ELSE NoDecl] :
        dt \in {d \in AllDecls : Cardinality(DeclaredRelations(d)) <= 1},
        ds \in SimplifyCFGDecls}

InitBuild ==
    /\ registry \in BuildRegistries
    /\ passes \in SeqsUpTo(PassNames, MaxLen)
    /\ pipeline_name \in LevelNames
    /\ flags \in SUBSET BuildFlags
    /\ result = Pending
    /\ RunIdle /\ MemIdle /\ RoIdle /\ FwIdle /\ TmIdle /\ CcIdle

\* _build_fn_pass_pipeline(flags)
Build ==
    /\ result = Pending
    /\ result' = BuildFnPassPipeline(registry, passes, flags, pipeline_name)
    /\ UNCHANGED <<registry, passes, pipeline_name, flags>>
    /\ UNCHANGED <<runVars, memVars, roVars, fwVars, tmVars, ccVars>>

NextBuild == Build

SpecBuild == InitBuild /\ [][NextBuild]_vars

\* A pass survives the filter: it has no flag, or its flag is not set.
Kept(p) ==
    \A f \in flags : \A q \in DOMAIN PASS_FLAG_MAP :
        (q = p) => PASS_FLAG_MAP[q] # f

KeptSubsequence == SelectSeq(passes, Kept)

Occurrences(sq, p) == Cardinality({i \in 1..Len(sq) : sq[i] = p})

\* C5: the build either raises or returns exactly the passes of the static
\* list whose flag is not set, in order; passes without a flag are always
\* kept; and validation sees the filtered list: a remaining pass whose
\* relation names only passes that the flags removed makes the build fail,
\* and a failure is a failure of the filtered list.
C5_BuildFiltersThenValidates ==
    result.status # "pending" =>
        /\ ReturnedOk => result.value = KeptSubsequence
        /\ ReturnedOk =>
              \A p \in PassNames \ DOMAIN PASS_FLAG_MAP :
                  Occurrences(result.value, p) = Occurrences(passes, p)
        /\ \A i \in 1..Len(KeptSubsequence) : \A r \in Relations :
              LET refs == registry[KeptSubsequence[i]][r]
              IN  (/\ refs # <<>>
                   /\ Range(refs) \subseteq Range(passes)
                   /\ Range(refs) \cap Range(KeptSubsequence) = {})
                  => Raised
        /\ Raised =>
              /\ ~AllRelationsHold(registry, KeptSubsequence)
              /\ result.message[2] = pipeline_name

\* The static list is valid, and disabling the successor TailMergePass
\* requires makes the build fail, naming TailMergePass.
C5_Witness ==
    /\ Raised
    /\ passes = <<"TailMergePass", "SimplifyCFGPass">>
    /\ registry["TailMergePass"].required_successors = <<"SimplifyCFGPass">>
    /\ registry["SimplifyCFGPass"] = NoDecl
    /\ flags = {"disable_simplify_cfg"}
    /\ result.message[4] = "TailMergePass"
    /\ AllRelationsHold(registry, passes)


(***************************************************************************)
(* run_passes_on and the per-function driver: venom/__init__.py            *)
(***************************************************************************)

\* The functions of the context; ctx.entry_function is "entry".
Functions == {"entry", "f", "g"}
EntryFunction == "entry"

\* Most distinct callees of one function.
MaxCallees == 2

\* fcg.get_callees(fn): an ordered set, so a sequence without repetition.
CalleeSeqs ==
    {sq \in SeqsUpTo(Functions, MaxCallees) :
        \A i, j \in 1..Len(sq) : i # j => sq[i] # sq[j]}

\* Functions reachable from fn over the call graph cg (fn included).
RECURSIVE ReachableFrom(_, _, _)
ReachableFrom(cg, seen, frontier) ==
    IF frontier = {} THEN seen
    ELSE LET nxt == (UNION {Range(cg[h]) : h \in frontier}) \ (seen \cup frontier)
         IN  ReachableFrom(cg, seen \cup frontier, nxt)

Reachable(cg, fn) == ReachableFrom(cg, {}, {fn})

\* The per-function pass lists the driver is run with, and the declarations
\* of their classes (tail_merge.py; the other two declare nothing).
RunStaticLists ==
    {<<"TailMergePass", "SimplifyCFGPass">>,
     <<"CSE", "TailMergePass", "SimplifyCFGPass">>}

RunRegistry ==
    [n \in PassNames |-> IF n = "TailMergePass" THEN TailMergeDecl ELSE NoDecl]

RunFlags == {"disable_simplify_cfg", "disable_cse", "disable_inlining"}

\* Marks a global pass in the execution log.
WholeContext == "ctx"

InitRun ==
    /\ registry = RunRegistry
    /\ passes \in RunStaticLists
    /\ pipeline_name = "OptimizationLevel.O2"
    /\ flags \in SUBSET RunFlags
    /\ result = Pending
    /\ callees \in [Functions -> CalleeSeqs]
    /\ functions = Functions
    /\ pc = "global_passes"
    /\ stack = <<>>
    /\ visited = {}
    /\ ran = <<>>
    /\ MemIdle /\ RoIdle /\ FwIdle /\ TmIdle /\ CcIdle

\* _run_global_passes(ctx, flags, ir_analyses)
RunGlobalPasses ==
    /\ pc = "global_passes"
    /\ ran' = ran \o <<[fn |-> WholeContext, pass |-> "FixCalloca"]>>
                  \o (IF "disable_inlining" \notin flags
                      THEN <<[fn |-> WholeContext, pass |-> "FunctionInlinerPass"]>>
                      ELSE <<>>)
    /\ pc' = "prune"
    /\ UNCHANGED <<ordVars, callees, functions, stack, visited>>
    /\ UNCHANGED <<memVars, roVars, fwVars, tmVars, ccVars>>

\* for fn in fcg.get_unreachable_functions(): ctx.remove_function(fn)
RemoveUnreachable ==
    /\ pc = "prune"
    /\ functions' = functions \cap Reachable(callees, EntryFunction)
    /\ pc' = "build"
    /\ UNCHANGED <<ordVars, callees, stack, visited, ran>>
    /\ UNCHANGED <<memVars, roVars, fwVars, tmVars, ccVars>>

\* pass_pipeline = _build_fn_pass_pipeline(flags)
BuildPipeline ==
    /\ pc = "build"
    /\ result' = BuildFnPassPipeline(registry, passes, flags, pipeline_name)
    /\ pc' = IF result'.status = "raised" THEN "panic" ELSE "fn_passes"
    /\ UNCHANGED <<registry, passes, pipeline_name, flags>>
    /\ UNCHANGED <<callees, functions, stack, visited, ran>>
    /\ UNCHANGED <<memVars, roVars, fwVars, tmVars, ccVars>>

\* The entry of _run_fn_passes_r(fn): return at once when fn was visited,
\* else mark it and start on its callees.
EnterFn(fn, st, vis) ==
    IF fn \in vis THEN [stack |-> st, visited |-> vis]
    ELSE [stack |-> st \o <<[fn |-> fn, next |-> 1]>>,
          visited |-> vis \cup {fn}]

\* _run_fn_passes: visited = set(); _run_fn_passes_r(ctx.entry_function)
RunFnPasses ==
    /\ pc = "fn_passes"
    /\ LET e == EnterFn(EntryFunction, <<>>, {})
       IN  stack' = e.stack /\ visited' = e.visited
    /\ pc' = "recurse"
    /\ UNCHANGED <<ordVars, callees, functions, ran>>
    /\ UNCHANGED <<memVars, roVars, fwVars, tmVars, ccVars>>

Top == stack[Len(stack)]

DescendMarksOnly ==
    /\ pc = "recurse" /\ stack # <<>>
    /\ Top.next <= Len(callees[Top.fn])
    /\ LET next_fn == callees[Top.fn][Top.next]
           st == [stack EXCEPT ![Len(stack)].next = Top.next + 1]
       IN  stack' = st /\ visited' = visited \cup {next_fn}
    /\ UNCHANGED <<ordVars, callees, functions, pc, ran>>
    /\ UNCHANGED <<memVars, roVars, fwVars, tmVars, ccVars>>

\* One iteration of `for next_fn in fcg.get_callees(fn)`: the recursive call.
Descend ==
    /\ pc = "recurse" /\ stack # <<>>
    /\ Top.next <= Len(callees[Top.fn])
    /\ LET next_fn == callees[Top.fn][Top.next]
           st == [stack EXCEPT ![Len(stack)].next = Top.next + 1]
           e == EnterFn(next_fn, st, visited)
       IN  stack' = e.stack /\ visited' = e.visited
    /\ UNCHANGED <<ordVars, callees, functions, pc, ran>>
    /\ UNCHANGED <<memVars, roVars, fwVars, tmVars, ccVars>>

\* A variant of _run_passes that runs the pipeline back to front.
RunPassesBackwards ==
    /\ pc = "recurse" /\ stack # <<>>
    /\ Top.next > Len(callees[Top.fn])
    /\ ran' = ran \o [i \in 1..Len(result.value) |->
                         [fn |-> Top.fn,
                          pass |-> result.value[Len(result.value) + 1 - i]]]
    /\ stack' = SubSeq(stack, 1, Len(stack) - 1)
    /\ pc' = IF Len(stack) = 1 THEN "done" ELSE pc
    /\ UNCHANGED <<ordVars, callees, functions, visited>>
    /\ UNCHANGED <<memVars, roVars, fwVars, tmVars, ccVars>>

\* _run_passes(fn, pass_pipeline, ir_analyses[fn]), then the return.
RunPasses ==
    /\ pc = "recurse" /\ stack # <<>>
    /\ Top.next > Len(callees[Top.fn])
    /\ ran' = ran \o [i \in 1..Len(result.value) |->
                         [fn |-> Top.fn, pass |-> result.value[i]]]
    /\ stack' = SubSeq(stack, 1, Len(stack) - 1)
    /\ pc' = IF Len(stack) = 1 THEN "done" ELSE pc
    /\ UNCHANGED <<ordVars, callees, functions, visited>>
    /\ UNCHANGED <<memVars, roVars, fwVars, tmVars, ccVars>>

NextRun ==
    \/ RunGlobalPasses
    \/ RemoveUnreachable
    \/ BuildPipeline
    \/ RunFnPasses
    \/ Descend
    \/ RunPasses

SpecRun == InitRun /\ [][NextRun]_vars

\* Positions of the log at which a pass ran on fn.
RanAt(fn) == {i \in 1..Len(ran) : ran[i].fn = fn}

Started(fn) == RanAt(fn) # {}

\* The whole pipeline ran on g before position i of the log.
FinishedBefore(g, i) ==
    Cardinality({j \in RanAt(g) : j < i}) = Len(result.value)

CallEdges ==
    {<<a, b>> \in functions \X functions : b \in Range(callees[a]) /\ a # b}

\* C6: when the assembled pipeline violates an ordering relation, the panic
\* is raised before any pass has executed: no global pass and no
\* per-function pass has run and the context is as it was handed in.
C6_PanicBeforeAnyPass ==
    pc = "panic" => (ran = <<>> /\ functions = Functions)

\* C7 as stated: for every call edge f -> g with f # g of the reachable
\* graph, recursion included, the pipeline has finished on the callee g
\* before it starts on the caller f.
C7_CalleeBeforeCaller ==
    \A e \in CallEdges :
        (e[1] \in Reachable(callees, EntryFunction) /\ Started(e[1]))
            => FinishedBefore(e[2], Min(RanAt(e[1])))

\* C7 amended: the same for every call edge f -> g that lies on no cycle of
\* the call graph (f is not reachable from g).
C7_CalleeBeforeCallerAcyclic ==
    \A e \in CallEdges :
        (/\ e[1] \in Reachable(callees, EntryFunction)
         /\ e[1] \notin Reachable(callees, e[2])
         /\ Started(e[1]))
            => FinishedBefore(e[2], Min(RanAt(e[1])))

\* entry calls f and g, f calls g, g calls itself: g, then f, then entry.
C7_Witness ==
    /\ pc = "done"
    /\ callees = [entry |-> <<"f", "g">>, f |-> <<"g">>, g |-> <<"g">>]
    /\ Started("entry") /\ Started("f") /\ Started("g")
    /\ Min(RanAt("g")) < Min(RanAt("f"))
    /\ Min(RanAt("f")) < Min(RanAt("entry"))


(***************************************************************************)
(* Memory concretization (ConcretizeMemLocPass), after the design in the   *)
(* specification: liveness of allocation sites, then first-fit placement.  *)
(* The function is one basic block, as in test_concretize_mem.py.          *)
(***************************************************************************)

\* Allocation sites (alloca) of the function.
Sites == {"scratch", "buf"}

\* Longest instruction sequence.
MaxInsts == 5

\* Byte sizes of the sites, and the width of mstore / mload.
SiteSizes == {32, 64}
WordSize == 32

\* mstore %s, v        writes one word at the start of site s
\* calldatacopy %s, .. writes the whole site s
\* mload %s            reads one word of site s
Opcodes == {"mstore", "calldatacopy", "mload"}

Instructions == [op : Opcodes, site : Sites]

Writes(prog, i, s) ==
    prog[i].site = s /\ prog[i].op \in {"mstore", "calldatacopy"}

Reads(prog, i, s) == prog[i].site = s /\ prog[i].op = "mload"

\* Bytes written by instruction i.
WriteSize(prog, sizes, i) ==
    IF prog[i].op = "mstore" THEN WordSize ELSE sizes[prog[i].site]

\* A write that covers the whole site.
FullOverwrite(prog, sizes, i, s) ==
    Writes(prog, i, s) /\ WriteSize(prog, sizes, i) = sizes[s]

\* Backward liveness: the sites live at instruction i, from those live
\* after it: a full overwrite kills its site, a read makes it live.
RECURSIVE LiveAt(_, _, _)
LiveAt(prog, sizes, i) ==
    IF i > Len(prog) THEN {}
    ELSE LET after == LiveAt(prog, sizes, i + 1)
             kept == {s \in after : ~FullOverwrite(prog, sizes, i, s)}
         IN  kept \cup {s \in Sites : Reads(prog, i, s)}

\* Sites written before instruction i.
Used(prog, i) == {s \in Sites : \E j \in 1..(i - 1) : Writes(prog, j, s)}

MarkStoreLocationsLiveOmitted(prog, s, live) == live

\* Every instruction that stores to s keeps s live at that instruction.
MarkStoreLocationsLive(prog, s, live) ==
    live \cup {i \in 1..Len(prog) : Writes(prog, i, s)}

\* The live set of every site.
LiveSets(prog, sizes) ==
    [s \in Sites |->
        MarkStoreLocationsLive(prog, s,
            {i \in 1..Len(prog) :
                s \in LiveAt(prog, sizes, i) /\ s \in Used(prog, i)})]

Overlap(o1, n1, o2, n2) == o1 < o2 + n2 /\ o2 < o1 + n1

FirstFitAtZero(s, sizes, live, placed) == 0

\* The lowest offset at which site s overlaps no placed site it is live
\* together with.
FirstFit(s, sizes, live, placed) ==
    LET conflicts == {t \in DOMAIN placed : live[s] \cap live[t] # {}}
        candidates == {0} \cup {placed[t] + sizes[t] : t \in conflicts}
        free(o) == \A t \in conflicts :
                       ~Overlap(o, sizes[s], placed[t], sizes[t])
    IN  Min({o \in candidates : free(o)})

\* Place the sites in the given order.
RECURSIVE Allocate(_, _, _, _)
Allocate(order, sizes, live, placed) ==
    IF order = <<>> THEN placed
    ELSE LET s == Head(order)
             o == FirstFit(s, sizes, live, placed)
         IN  Allocate(Tail(order), sizes, live,
                      [t \in DOMAIN placed \cup {s} |->
                          IF t = s THEN o ELSE placed[t]])

SiteOrders ==
    {sq \in [1..Cardinality(Sites) -> Sites] :
        \A i, j \in 1..Len(sq) : i # j => sq[i] # sq[j]}

NothingPlaced == [t \in {} |-> 0]

InitMem ==
    /\ program \in SeqsUpTo(Instructions, MaxInsts)
    /\ alloca_size \in [Sites -> SiteSizes]
    /\ livesets = [s \in Sites |-> {}]
    /\ allocated = NothingPlaced
    /\ OrdIdle /\ RunIdle /\ RoIdle /\ FwIdle /\ TmIdle /\ CcIdle

\* ConcretizeMemLocPass.run_pass; the order of placement is left open.
ConcretizeMemLoc ==
    /\ DOMAIN allocated = {}
    /\ \E order \in SiteOrders :
          /\ livesets' = LiveSets(program, alloca_size)
          /\ allocated' = Allocate(order, alloca_size, livesets', NothingPlaced)
    /\ UNCHANGED <<program, alloca_size>>
    /\ UNCHANGED <<ordVars, runVars, roVars, fwVars, tmVars, ccVars>>

NextMem == ConcretizeMemLoc

SpecMem == InitMem /\ [][NextMem]_vars

Concretized == DOMAIN allocated = Sites

RangesDisjoint(a, b) ==
    \/ allocated[a] + alloca_size[a] <= allocated[b]
    \/ allocated[b] + alloca_size[b] <= allocated[a]

\* C8: after concretization every two distinct sites whose computed live
\* sets share an instruction position have disjoint address ranges, and no
\* offset is negative.
C8_LiveOverlapDisjointRanges ==
    Concretized =>
        /\ \A a, b \in Sites :
              (a # b /\ livesets[a] \cap livesets[b] # {})
                  => RangesDisjoint(a, b)
        /\ \A a \in Sites : allocated[a] >= 0

\* Sites of 64 and 32 bytes live together, placed side by side.
C8_Witness ==
    /\ Concretized
    /\ alloca_size = [scratch |-> 32, buf |-> 64]
    /\ livesets["scratch"] \cap livesets["buf"] # {}
    /\ allocated["buf"] = 0 /\ allocated["scratch"] = 64

\* Site b holds a value at instruction i that a later read observes: it was
\* written before i and is read at or after i with no full overwrite between.
HoldsLiveValue(b, i) ==
    /\ \E j \in 1..(i - 1) : Writes(program, j, b)
    /\ \E k \in i..Len(program) :
          /\ Reads(program, k, b)
          /\ \A m \in i..(k - 1) : ~FullOverwrite(program, alloca_size, m, b)

\* C9: a site is live at every instruction that stores to it, also when a
\* full overwrite follows before any read; so if site a is stored to at an
\* instruction where another site b is live, a and b get disjoint ranges.
C9_StoreKeepsSiteLive ==
    Concretized =>
        \A i \in 1..Len(program) : \A a \in Sites :
            Writes(program, i, a) =>
                /\ i \in livesets[a]
                /\ \A b \in Sites \ {a} :
                      HoldsLiveValue(b, i) => RangesDisjoint(a, b)

\* The regression scenario with 64-byte sites: an early store to scratch,
\* later fully overwritten and reloaded, while buf is live.
C9_Witness ==
    /\ Concretized
    /\ program = <<[op |-> "calldatacopy", site |-> "buf"],
                   [op |-> "mstore", site |-> "scratch"],
                   [op |-> "mload", site |-> "buf"],
                   [op |-> "calldatacopy", site |-> "scratch"],
                   [op |-> "mload", site |-> "scratch"]>>
    /\ alloca_size = [scratch |-> 64, buf |-> 64]
    /\ RangesDisjoint("scratch", "buf")


(***************************************************************************)
(* Readonly memory-args analysis: readonly_memory_args_analysis.py         *)
(*                                                                         *)
(* An IR function is [name, params, invoke_param_count, insts]: params are *)
(* the outputs of the entry block's param instructions; insts are the      *)
(* instructions of all blocks in block order, each                         *)
(* [opcode, output, operands] with the operands in IR order.  An operand   *)
(* is [k, n]: a variable, a literal or a label.                            *)
(***************************************************************************)
Var(n) == [k |-> "var", n |-> n]
Lit(n) == [k |-> "lit", n |-> n]
Label(n) == [k |-> "label", n |-> n]

IsVariable(op) == op.k = "var"
IsLabel(op) == op.k = "label"
IsLiteral(op) == op.k = "lit"

NoOutput == ""

Inst(opcode, output, operands) ==
    [opcode |-> opcode, output |-> output, operands |-> operands]

\* fn._invoke_param_count is None
NoMetadata == -1

\* _has_ret_instruction
HasRetInstruction(fn) == \E i \in 1..Len(fn.insts) : fn.insts[i].opcode = "ret"

InvokeParamsKeepsLast(fn) ==
    IF Len(fn.params) = 0 THEN <<>>
    ELSE IF fn.invoke_param_count # NoMetadata
    THEN SubSeq(fn.params, 1,
                IF fn.invoke_param_count < Len(fn.params)
                THEN fn.invoke_param_count ELSE Len(fn.params))
    ELSE fn.params

\* _collect_param_info(fn).invoke_params
InvokeParams(fn) ==
    IF Len(fn.params) = 0 THEN <<>>
    ELSE IF fn.invoke_param_count # NoMetadata
    THEN SubSeq(fn.params, 1,
                IF fn.invoke_param_count < Len(fn.params)
                THEN fn.invoke_param_count ELSE Len(fn.params))
    ELSE IF HasRetInstruction(fn)
    THEN SubSeq(fn.params, 1, Len(fn.params) - 1)
    ELSE fn.params

\* _collect_param_info(fn).invoke_param_index (0-based, as in the code)
InvokeParamIndex(fn) ==
    LET ps == InvokeParams(fn)
    IN  [v \in Range(ps) |-> -Min({-(i - 1) : i \in {j \in 1..Len(ps) : ps[j] = v}})]

\* all_param_roots = frozenset(range(n))
AllParamRoots(fn) == 0..(Len(InvokeParams(fn)) - 1)

\* dfg.get_producing_instruction(var): <<inst>>, or <<>> for None
ProducingInstruction(fn, var) ==
    LET at == {i \in 1..Len(fn.insts) : fn.insts[i].output = var}
    IN  IF at = {} THEN <<>> ELSE <<fn.insts[Min(at)]>>

WriteOfstCountsLoads(inst) ==
    IF inst.opcode \in {"mstore", "mload"} THEN <<inst.operands[Len(inst.operands)]>>
    ELSE IF inst.opcode \in {"mcopy", "calldatacopy"} THEN <<inst.operands[3]>>
    ELSE <<>>

\* memory_write_ops(inst).ofst: <<operand>>, or <<>> for None.  mstore is
\* [value, ptr]; mcopy and calldatacopy are [size, src, dst].
WriteOfst(inst) ==
    IF inst.opcode = "mstore" THEN <<inst.operands[2]>>
    ELSE IF inst.opcode \in {"mcopy", "calldatacopy"} THEN <<inst.operands[3]>>
    ELSE <<>>

VariablesOf(ops) ==
    LET vs == SelectSeq(ops, IsVariable)
    IN  [i \in 1..Len(vs) |-> vs[i].n]

\* inst.phi_operands: the values of the (label, value) pairs
PhiValues(inst) ==
    [i \in 1..(Len(inst.operands) \div 2) |-> inst.operands[2 * i].n]

TracedOperandsFirstOnly(inst) ==
    LET op == inst.opcode
        all == IF op = "phi" THEN PhiValues(inst) ELSE VariablesOf(inst.operands)
    IN  IF op \in {"assign", "gep", "add", "sub", "phi"} /\ Len(all) > 0
        THEN <<all[1]>> ELSE <<>>

\* _root_from_inst, _root_from_add, _root_from_sub, _root_from_gep: the
\* variables whose roots the instruction's output inherits, in the order in
\* which the code looks them up.
TracedOperands(inst) ==
    LET op == inst.opcode
    IN  CASE op = "assign" ->
                IF IsVariable(inst.operands[1]) THEN <<inst.operands[1].n>>
                ELSE <<>>
          [] op = "gep" ->
                IF Len(inst.operands) # 2 THEN <<>>
                ELSE VariablesOf(inst.operands)
          [] op = "add" -> VariablesOf(inst.operands)
          [] op = "sub" ->
                IF Len(inst.operands) # 2 THEN <<>>
                ELSE VariablesOf(<<inst.operands[2], inst.operands[1]>>)
          [] op = "phi" -> PhiValues(inst)
          [] OTHER -> <<>>

\* root_param_indices_var with its root_memo and root_active, and the
\* roots.update loops over it.  Both return [roots, memo].
RECURSIVE RootParamIndicesVar(_, _, _, _)
RECURSIVE RootsOfAll(_, _, _, _)
RootsOfAll(fn, vs, memo, active) ==
    IF vs = <<>> THEN [roots |-> {}, memo |-> memo]
    ELSE LET h == RootParamIndicesVar(fn, Head(vs), memo, active)
             t == RootsOfAll(fn, Tail(vs), h.memo, active)
         IN  [roots |-> h.roots \cup t.roots, memo |-> t.memo]

RootParamIndicesVar(fn, var, memo, active) ==
    IF var \in DOMAIN memo THEN [roots |-> memo[var], memo |-> memo]
    ELSE IF var \in active THEN [roots |-> AllParamRoots(fn), memo |-> memo]
    ELSE IF var \in DOMAIN InvokeParamIndex(fn)
    THEN LET roots == {InvokeParamIndex(fn)[var]}
         IN  [roots |-> roots, memo |-> (var :> roots) @@ memo]
    ELSE LET inst == ProducingInstruction(fn, var)
             r == IF inst = <<>> THEN [roots |-> {}, memo |-> memo]
                  ELSE RootsOfAll(fn, TracedOperands(inst[1]), memo,
                                  active \cup {var})
         IN  [roots |-> r.roots, memo |-> (var :> r.roots) @@ r.memo]

\* root_param_indices(op)
RootParamIndices(fn, op, memo) ==
    IF ~IsVariable(op) THEN [roots |-> {}, memo |-> memo]
    ELSE RootParamIndicesVar(fn, op.n, memo, {})

\* ctx.functions.get(target, None): <<index into c>>, or <<>> for None
GetFunction(c, target) ==
    LET at == {i \in 1..Len(c) : c[i].name = target}
    IN  IF at = {} THEN <<>> ELSE <<Min(at)>>

RECURSIVE HandleInvokeArgsSkipsUnknown(_, _, _, _, _, _)
HandleInvokeArgsSkipsUnknown(c, fn, inst, op_idx, ro, st) ==
    IF op_idx + 1 > Len(inst.operands) THEN st
    ELSE LET target == inst.operands[1]
             r == RootParamIndices(fn, inst.operands[op_idx + 1], st.memo)
             callee == IF IsLabel(target) THEN GetFunction(c, target.n) ELSE <<>>
             marks ==
                /\ callee # <<>>
                /\ op_idx - 1 < Len(ro[callee[1]])
                /\ ~ro[callee[1]][op_idx]
         IN  HandleInvokeArgsSkipsUnknown(c, fn, inst, op_idx + 1, ro,
                [mutable |-> IF marks THEN st.mutable \cup r.roots ELSE st.mutable,
                 memo |-> r.memo])

RECURSIVE HandleInvokeArgsIgnoresCalleeState(_, _, _, _, _, _)
HandleInvokeArgsIgnoresCalleeState(c, fn, inst, op_idx, ro, st) ==
    IF op_idx + 1 > Len(inst.operands) THEN st
    ELSE LET target == inst.operands[1]
             r == RootParamIndices(fn, inst.operands[op_idx + 1], st.memo)
             callee == IF IsLabel(target) THEN GetFunction(c, target.n) ELSE <<>>
             marks ==
                \/ callee = <<>>
                \/ op_idx - 1 >= Len(ro[callee[1]])
         IN  HandleInvokeArgsIgnoresCalleeState(c, fn, inst, op_idx + 1, ro,
                [mutable |-> IF marks THEN st.mutable \cup r.roots ELSE st.mutable,
                 memo |-> r.memo])

\* A variant of _handle_invoke_args that marks the roots of an argument
\* when the callee's position is readonly instead of when it is not.
RECURSIVE HandleInvokeArgsMarksReadonly(_, _, _, _, _, _)
HandleInvokeArgsMarksReadonly(c, fn, inst, op_idx, ro, st) ==
    IF op_idx + 1 > Len(inst.operands) THEN st
    ELSE LET target == inst.operands[1]
             r == RootParamIndices(fn, inst.operands[op_idx + 1], st.memo)
             callee == IF IsLabel(target) THEN GetFunction(c, target.n) ELSE <<>>
             callee_arg_idx == op_idx - 1
             callee_state == IF callee = <<>> THEN <<>> ELSE ro[callee[1]]
             marks ==
                \/ ~IsLabel(target)
                \/ callee = <<>>
                \/ callee_arg_idx >= Len(callee_state)
                \/ callee_state[callee_arg_idx + 1]
         IN  HandleInvokeArgsMarksReadonly(c, fn, inst, op_idx + 1, ro,
                [mutable |-> IF marks THEN st.mutable \cup r.roots ELSE st.mutable,
                 memo |-> r.memo])

\* _handle_invoke, operand by operand; st is [mutable, memo].
RECURSIVE HandleInvokeArgs(_, _, _, _, _, _)
HandleInvokeArgs(c, fn, inst, op_idx, ro, st) ==
    IF op_idx + 1 > Len(inst.operands) THEN st
    ELSE LET target == inst.operands[1]
             r == RootParamIndices(fn, inst.operands[op_idx + 1], st.memo)
             callee == IF IsLabel(target) THEN GetFunction(c, target.n) ELSE <<>>
             callee_arg_idx == op_idx - 1
             callee_state == IF callee = <<>> THEN <<>> ELSE ro[callee[1]]
             marks ==
                \/ ~IsLabel(target)
                \/ callee = <<>>
                \/ callee_arg_idx >= Len(callee_state)
                \/ ~callee_state[callee_arg_idx + 1]
         IN  HandleInvokeArgs(c, fn, inst, op_idx + 1, ro,
                [mutable |-> IF marks THEN st.mutable \cup r.roots ELSE st.mutable,
                 memo |-> r.memo])

\* The instruction loop of _analyze_fn.
RECURSIVE AnalyzeInsts(_, _, _, _, _)
AnalyzeInsts(c, fn, i, ro, st) ==
    IF i > Len(fn.insts) THEN st
    ELSE LET inst == fn.insts[i]
         IN  IF inst.opcode = "invoke"
             THEN AnalyzeInsts(c, fn, i + 1, ro,
                               HandleInvokeArgs(c, fn, inst, 1, ro, st))
             ELSE IF WriteOfst(inst) = <<>>
             THEN AnalyzeInsts(c, fn, i + 1, ro, st)
             ELSE LET r == RootParamIndices(fn, WriteOfst(inst)[1], st.memo)
                  IN  AnalyzeInsts(c, fn, i + 1, ro,
                         [mutable |-> st.mutable \cup r.roots, memo |-> r.memo])

NoMemo == [v \in {} |-> {}]

\* _analyze_fn(fn, info, readonly_by_fn): the new tuple of booleans
AnalyzeFn(c, k, ro) ==
    LET fn == c[k]
        n == Len(InvokeParams(fn))
        st == AnalyzeInsts(c, fn, 1, ro, [mutable |-> {}, memo |-> NoMemo])
    IN  [i \in 1..n |-> (i - 1) \notin st.mutable]

\* run_pass, one step per loop iteration.  ro_pc is the position in
\* `for fn, info in infos.items()`; past the last function the while
\* condition is tested.
RoDone == 0

\* new_state = self._analyze_fn(...); if new_state != readonly_by_fn[fn]: ...
AnalyzeStep ==
    /\ ro_pc \in 1..Len(ctx)
    /\ LET new_state == AnalyzeFn(ctx, ro_pc, readonly_by_fn)
       IN  IF new_state # readonly_by_fn[ro_pc]
           THEN /\ readonly_by_fn' = [readonly_by_fn EXCEPT ![ro_pc] = new_state]
                /\ changed' = TRUE
           ELSE UNCHANGED <<readonly_by_fn, changed>>
    /\ ro_pc' = ro_pc + 1
    /\ UNCHANGED <<ctx, readonly_idxs>>
    /\ UNCHANGED <<ordVars, runVars, memVars, fwVars, tmVars, ccVars>>

\* while changed: changed = False
NextSweep ==
    /\ ro_pc = Len(ctx) + 1
    /\ changed
    /\ changed' = FALSE
    /\ ro_pc' = 1
    /\ UNCHANGED <<ctx, readonly_by_fn, readonly_idxs>>
    /\ UNCHANGED <<ordVars, runVars, memVars, fwVars, tmVars, ccVars>>

\* A variant of run_pass that leaves the loop after the first sweep.
StoreResultsAfterOneSweep ==
    /\ ro_pc = Len(ctx) + 1
    /\ readonly_idxs' =
          [k \in 1..Len(ctx) |->
              {i - 1 : i \in {j \in 1..Len(readonly_by_fn[k]) : readonly_by_fn[k][j]}}]
    /\ ro_pc' = RoDone
    /\ UNCHANGED <<ctx, readonly_by_fn, changed>>
    /\ UNCHANGED <<ordVars, runVars, memVars, fwVars, tmVars, ccVars>>

\* fn._readonly_memory_invoke_arg_idxs = tuple(i for i, is_ro in ... if is_ro)
StoreResults ==
    /\ ro_pc = Len(ctx) + 1
    /\ ~changed
    /\ readonly_idxs' =
          [k \in 1..Len(ctx) |->
              {i - 1 : i \in {j \in 1..Len(readonly_by_fn[k]) : readonly_by_fn[k][j]}}]
    /\ ro_pc' = RoDone
    /\ UNCHANGED <<ctx, readonly_by_fn, changed>>
    /\ UNCHANGED <<ordVars, runVars, memVars, fwVars, tmVars, ccVars>>

\* readonly_by_fn[fn] = tuple(True for _ in range(len(info.invoke_params)))
InitialReadonly(c) ==
    [k \in 1..Len(c) |-> [i \in 1..Len(InvokeParams(c[k])) |-> TRUE]]


(***************************************************************************)
(* SpecReadonly: the pass on one internal function                         *)
(*     function f { param a; param b; param retpc;                         *)
(*                  v0 = ...; v1 = ...; mstore ...; ret retpc }            *)
(* whose two temporaries are defined by any of the pointer-forming         *)
(* opcodes (or by mul, which the analysis does not trace) over a, b, v0,   *)
(* v1 and a literal, cycles included, and which stores through up to       *)
(* MaxWrites destinations.                                                 *)
(***************************************************************************)
MaxWrites == 1

Params == <<"a", "b", "retpc">>
Temps == <<"v0", "v1">>
Pointers == {Var("a"), Var("b"), Var("v0"), Var("v1")}
Operands == Pointers \cup {Lit("32")}

OperandLists ==
    {<<x>> : x \in Operands}
    \cup {o \in Operands \X Operands :
             o[1] # o[2] /\ (o[1] \in Pointers \/ o[2] \in Pointers)}

Definitions(v) ==
    {Inst("assign", v, ops) : ops \in {o \in OperandLists : Len(o) = 1}}
    \cup {Inst(op, v, ops) : op \in {"gep", "add", "sub"},
                             ops \in {o \in OperandLists : Len(o) = 2}}
    \cup {Inst("phi", v, <<Label("l"), o[1], Label("r"), o[2]>>) :
             o \in {q \in Pointers \X Pointers : q[1] # q[2]}}
    \cup {Inst("mul", v, <<x, Lit("32")>>) : x \in Pointers}

Stores == {Inst("mstore", NoOutput, <<Lit("32"), d>>) : d \in Pointers}

LocalFunctions ==
    {[name |-> "f", params |-> Params, invoke_param_count |-> NoMetadata,
      insts |-> <<d0, d1>> \o ws \o <<Inst("ret", NoOutput, <<Var("retpc")>>)>>] :
        d0 \in Definitions(Temps[1]), d1 \in Definitions(Temps[2]),
        ws \in SeqsUpTo(Stores, MaxWrites) \ {<<>>}}

InitReadonly ==
    /\ ctx \in {<<fn>> : fn \in LocalFunctions}
    /\ readonly_by_fn = InitialReadonly(ctx)
    /\ changed = FALSE
    /\ ro_pc = 1
    /\ readonly_idxs = [k \in 1..Len(ctx) |-> {}]
    /\ OrdIdle /\ RunIdle /\ MemIdle /\ FwIdle /\ TmIdle /\ CcIdle

NextReadonly == AnalyzeStep \/ NextSweep \/ StoreResults

SpecReadonly == InitReadonly /\ [][NextReadonly]_vars

\* The variables an instruction's output is derived from, by the meaning of
\* the opcode: the source of an assign, either operand of gep, add and sub,
\* any incoming value of a phi.
DerivedFromDirectly(fn, v) ==
    LET inst == ProducingInstruction(fn, v)
    IN  IF inst = <<>> THEN {}
        ELSE IF inst[1].opcode = "phi" THEN Range(PhiValues(inst[1]))
        ELSE IF inst[1].opcode \in {"assign", "gep", "add", "sub"}
        THEN {op.n : op \in {o \in Range(inst[1].operands) : IsVariable(o)}}
        ELSE {}

RECURSIVE DerivationClosure(_, _)
DerivationClosure(fn, S) ==
    LET more == S \cup UNION {DerivedFromDirectly(fn, v) : v \in S}
    IN  IF more = S THEN S ELSE DerivationClosure(fn, more)

WrittenThrough(fn) ==
    {WriteOfst(fn.insts[i])[1].n :
        i \in {j \in 1..Len(fn.insts) :
                 /\ WriteOfst(fn.insts[j]) # <<>>
                 /\ IsVariable(WriteOfst(fn.insts[j])[1])}}

\* A variable whose definition is derived from itself.
OnCycle(fn, v) == v \in DerivationClosure(fn, DerivedFromDirectly(fn, v))

\* C10: once the pass has stored its result, no invoke parameter from which
\* the destination of a local memory write is derived, through any chain of
\* assign, gep, add, sub and phi instructions (either operand of gep, add
\* and sub, any incoming value of phi, cycles included), is among the
\* function's readonly parameter indices; and when the chain runs into a
\* cycle the destination counts as derived from every parameter, so no
\* index at all is readonly.
C10_WriteRootsNotReadonly ==
    ro_pc = RoDone =>
        \A k \in 1..Len(ctx) :
            \A d \in WrittenThrough(ctx[k]) :
                /\ \A p \in DerivationClosure(ctx[k], {d}) :
                      p \in DOMAIN InvokeParamIndex(ctx[k]) =>
                          InvokeParamIndex(ctx[k])[p] \notin readonly_idxs[k]
                /\ (\E u \in DerivationClosure(ctx[k], {d}) : OnCycle(ctx[k], u))
                      => readonly_idxs[k] = {}

\* A finished run on a function that stores through a phi which is part of
\* a cycle of definitions and is derived from parameter a.
C10_Witness ==
    /\ ro_pc = RoDone
    /\ \E d \in WrittenThrough(ctx[1]) :
          /\ ProducingInstruction(ctx[1], d) # <<>>
          /\ ProducingInstruction(ctx[1], d)[1].opcode = "phi"
          /\ OnCycle(ctx[1], d)
          /\ "a" \in DerivationClosure(ctx[1], {d})
          /\ 0 \notin readonly_idxs[1]


(***************************************************************************)
(* SpecCalls: the pass on a context of three internal functions            *)
(*     f(a, b, retpc), g(a, b, retpc), h(a, retpc)                         *)
(* Each body is  v0 = gep a, 32; v1 = mload v0; <effect>; ret retpc  where *)
(* the effect is nothing, a store through a, b or v0, or an invoke.  f     *)
(* invokes g, a label that names no function, or a variable; g invokes h,  *)
(* f or itself; h invokes f or itself.  The context lists f before g       *)
(* before h, so callers are analysed before their callees.                 *)
(***************************************************************************)
CallParams == <<"a", "b", "retpc">>
LeafParams == <<"a", "retpc">>

Prelude ==
    <<Inst("gep", "v0", <<Var("a"), Lit("32")>>),
      Inst("mload", "v1", <<Var("v0")>>)>>

Ret == Inst("ret", NoOutput, <<Var("retpc")>>)

ArgLists ==
    {<<Var("a")>>, <<Var("b")>>, <<Var("a"), Var("b")>>, <<Var("b"), Var("a")>>,
     <<Var("a"), Var("a")>>, <<Var("v0"), Var("b")>>}

LeafArgLists == {<<Var("a")>>, <<Var("v0")>>}

StoresThrough(ds) == {<<Inst("mstore", NoOutput, <<Lit("32"), Var(d)>>)>> : d \in ds}

Invokes(targets, args) ==
    {<<Inst("invoke", NoOutput, <<t>> \o as)>> : t \in targets, as \in args}

Effects(name) ==
    IF name = "f"
    THEN {<<>>} \cup StoresThrough({"a", "b", "v0"})
         \cup Invokes({Label("g"), Label("x"), Var("b")}, ArgLists)
    ELSE IF name = "g"
    THEN {<<>>} \cup StoresThrough({"a", "b", "v0"})
         \cup Invokes({Label("h"), Label("f"), Label("g")}, ArgLists)
    ELSE {<<>>} \cup StoresThrough({"a", "v0"})
         \cup Invokes({Label("f"), Label("h")}, LeafArgLists)

CallFunctions(name) ==
    {[name |-> name,
      params |-> IF name = "h" THEN LeafParams ELSE CallParams,
      invoke_param_count |-> NoMetadata,
      insts |-> Prelude \o e \o <<Ret>>] : e \in Effects(name)}

InitCalls ==
    /\ ctx \in {<<f, g, h>> : f \in CallFunctions("f"), g \in CallFunctions("g"),
                              h \in CallFunctions("h")}
    /\ readonly_by_fn = InitialReadonly(ctx)
    /\ changed = FALSE
    /\ ro_pc = 1
    /\ readonly_idxs = [k \in 1..Len(ctx) |-> {}]
    /\ OrdIdle /\ RunIdle /\ MemIdle /\ FwIdle /\ TmIdle /\ CcIdle

SpecCalls == InitCalls /\ [][NextReadonly]_vars


\* The invoke parameters (as indices) a variable is derived from, by the
\* meaning of the opcodes; a chain that runs into a cycle counts as derived
\* from every parameter.
DeclaredRoots(fn, v) ==
    LET cl == DerivationClosure(fn, {v})
    IN  IF \E u \in cl : OnCycle(fn, u) THEN AllParamRoots(fn)
        ELSE {InvokeParamIndex(fn)[p] : p \in cl \cap DOMAIN InvokeParamIndex(fn)}

\* The invokes of a function, as indices into its instructions.
InvokesOf(fn) == {i \in 1..Len(fn.insts) : fn.insts[i].opcode = "invoke"}

\* Variables passed as argument operands (operands 1..n) of invoke i.
ArgumentsOf(fn, i) ==
    {fn.insts[i].operands[j].n :
        j \in {m \in 2..Len(fn.insts[i].operands) : IsVariable(fn.insts[i].operands[m])}}

\* The variables a function stores through: the address operand of mstore,
\* the destination operand of mcopy and calldatacopy.
StoredThrough(fn) ==
    {op.n : op \in {o \in
        {fn.insts[i].operands[2] : i \in {j \in 1..Len(fn.insts) :
                                             fn.insts[j].opcode = "mstore"}}
        \cup {fn.insts[i].operands[3] : i \in {j \in 1..Len(fn.insts) :
                             fn.insts[j].opcode \in {"mcopy", "calldatacopy"}}} :
        IsVariable(o)}}

WrittenRoots(fn) == UNION {DeclaredRoots(fn, d) : d \in StoredThrough(fn)}

PassedRoots(fn) ==
    UNION {DeclaredRoots(fn, x) : x \in UNION {ArgumentsOf(fn, i) : i \in InvokesOf(fn)}}

\* C11: after the analysis, a parameter that is not the root of any
\* memory-write destination and not the root of any invoke argument (it is
\* at most read through, e.g. by gep and mload) is among the function's
\* readonly indices.
C11_OnlyReadParamIsReadonly ==
    ro_pc = RoDone =>
        \A k \in 1..Len(ctx) : \A i \in AllParamRoots(ctx[k]) :
            (i \notin WrittenRoots(ctx[k]) /\ i \notin PassedRoots(ctx[k]))
                => i \in readonly_idxs[k]

\* f reads through a (gep, mload) and stores through b only: a is reported
\* readonly, b is not.
C11_Witness ==
    /\ ro_pc = RoDone
    /\ StoredThrough(ctx[1]) = {"b"}
    /\ InvokesOf(ctx[1]) = {}
    /\ \E i \in 1..Len(ctx[1].insts) :
          /\ ctx[1].insts[i].opcode = "mload"
          /\ DeclaredRoots(ctx[1], ctx[1].insts[i].operands[1].n) = {0}
    /\ readonly_idxs[1] = {0}


\* The function an invoke's target names: <<index into c>>, or <<>> when the
\* target is not a label or names no function of the context.
KnownCallee(c, inst) ==
    LET hits == {k \in 1..Len(c) :
                    IsLabel(inst.operands[1]) /\ c[k].name = inst.operands[1].n}
    IN  IF hits = {} THEN <<>> ELSE <<Min(hits)>>

\* Argument position j (counted from 0) of an invoke has no counterpart in
\* what is known of the callee.
Unresolved(c, inst, j) ==
    \/ KnownCallee(c, inst) = <<>>
    \/ j >= Len(InvokeParams(c[KnownCallee(c, inst)[1]]))

\* C12: when an invoke's target is not a label, or names no function of
\* the context, or an argument position lies beyond the callee's parameter
\* vector, every caller parameter that is a root of that argument operand is
\* absent from the caller's readonly indices; a parameter used only as the
\* call target (never a root of a store destination or of an argument) is
\* reported readonly.
C12_UnresolvedInvokeMarksArgsMutable ==
    ro_pc = RoDone =>
        \A k \in 1..Len(ctx) : \A i \in InvokesOf(ctx[k]) :
            LET inst == ctx[k].insts[i]
            IN  /\ \A j \in 0..(Len(inst.operands) - 2) :
                      (IsVariable(inst.operands[j + 2]) /\ Unresolved(ctx, inst, j))
                          => DeclaredRoots(ctx[k], inst.operands[j + 2].n)
                                \cap readonly_idxs[k] = {}
                /\ (/\ IsVariable(inst.operands[1])
                    /\ inst.operands[1].n \in DOMAIN InvokeParamIndex(ctx[k])
                    /\ InvokeParamIndex(ctx[k])[inst.operands[1].n]
                          \notin (WrittenRoots(ctx[k]) \cup PassedRoots(ctx[k])))
                      => InvokeParamIndex(ctx[k])[inst.operands[1].n]
                            \in readonly_idxs[k]

\* f invokes through the variable b with the argument a: a is mutable, b
\* stays readonly; and g passes b to h beyond h's single parameter.
C12_Witness ==
    /\ ro_pc = RoDone
    /\ \E i \in InvokesOf(ctx[1]) :
          ctx[1].insts[i].operands = <<Var("b"), Var("a")>>
    /\ readonly_idxs[1] = {1}
    /\ \E i \in InvokesOf(ctx[2]) :
          ctx[2].insts[i].operands = <<Label("h"), Var("a"), Var("b")>>
    /\ 1 \notin readonly_idxs[2]


\* The variables an instruction's output is computed from, whatever the
\* opcode and the operand count.
ComputedFromDirectly(fn, v) ==
    LET inst == ProducingInstruction(fn, v)
    IN  IF inst = <<>> THEN {}
        ELSE {op.n : op \in {o \in Range(inst[1].operands) : IsVariable(o)}}

RECURSIVE ComputedFromClosure(_, _)
ComputedFromClosure(fn, S) ==
    LET more == S \cup UNION {ComputedFromDirectly(fn, v) : v \in S}
    IN  IF more = S THEN S ELSE ComputedFromClosure(fn, more)

\* C13: after the analysis, every invoke parameter from which a store
\* destination is computed, also through instructions the analysis does not
\* trace (an opcode other than assign, gep, add, sub, phi), is absent from
\* the function's readonly indices.
C13_UntracedRootIsMutable ==
    ro_pc = RoDone =>
        \A k \in 1..Len(ctx) :
            \A d \in StoredThrough(ctx[k]) :
                \A p \in ComputedFromClosure(ctx[k], {d}) :
                    p \in DOMAIN InvokeParamIndex(ctx[k]) =>
                        InvokeParamIndex(ctx[k])[p] \notin readonly_idxs[k]


(***************************************************************************)
(* SpecParams: the pass on one function with zero to three params, with or *)
(* without invoke-parameter metadata, ending in ret or in stop, that       *)
(* stores through some of its params and loads from the others.            *)
(***************************************************************************)
AllParams == <<"a", "b", "c">>

ParamLists == {SubSeq(AllParams, 1, n) : n \in 0..Len(AllParams)}

MetadataValues == {NoMetadata} \cup 0..(Len(AllParams) + 1)

\* One access per param, in param order: mstore for the params in W, mload
\* for the others.
Accesses(ps, W) ==
    [i \in 1..Len(ps) |->
        IF ps[i] \in W THEN Inst("mstore", NoOutput, <<Lit("32"), Var(ps[i])>>)
        ELSE Inst("mload", NoOutput, <<Var(ps[i])>>)]

Terminators(ps) ==
    {Inst("stop", NoOutput, <<>>),
     Inst("ret", NoOutput, IF ps = <<>> THEN <<>> ELSE <<Var(ps[Len(ps)])>>)}

FunctionsWith(ps) ==
    {[name |-> "f", params |-> ps, invoke_param_count |-> ipc,
      insts |-> Accesses(ps, W) \o <<t>>] :
        ipc \in MetadataValues, W \in SUBSET Range(ps), t \in Terminators(ps)}

ParamFunctions == UNION {FunctionsWith(ps) : ps \in ParamLists}

InitParams ==
    /\ ctx \in {<<fn>> : fn \in ParamFunctions}
    /\ readonly_by_fn = InitialReadonly(ctx)
    /\ changed = FALSE
    /\ ro_pc = 1
    /\ readonly_idxs = [k \in 1..Len(ctx) |-> {}]
    /\ OrdIdle /\ RunIdle /\ MemIdle /\ FwIdle /\ TmIdle /\ CcIdle

SpecParams == InitParams /\ [][NextReadonly]_vars

\* The number of analysed params, as the contract states it.
TrackedCount(fn) ==
    IF fn.invoke_param_count # NoMetadata
    THEN Min({fn.invoke_param_count, Len(fn.params)})
    ELSE IF \E i \in 1..Len(fn.insts) : fn.insts[i].opcode = "ret"
    THEN (IF Len(fn.params) = 0 THEN 0 ELSE Len(fn.params) - 1)
    ELSE Len(fn.params)

\* C14: the analysed params are the first min(invoke_param_count, #params)
\* params when the metadata is set, otherwise all params but the last when
\* the function contains a ret, otherwise all params; the readonly indices
\* are exactly the positions within that set of the params never stored
\* through, so the return-address param is never reported.
C14_TrackedParamSet ==
    ro_pc = RoDone =>
        \A k \in 1..Len(ctx) :
            readonly_idxs[k] =
                {i \in 0..(TrackedCount(ctx[k]) - 1) :
                    ctx[k].params[i + 1] \notin StoredThrough(ctx[k])}

\* Three params, no metadata, a ret and no store: positions 0 and 1 are
\* reported, the return address at position 2 is not.
C14_Witness ==
    /\ ro_pc = RoDone
    /\ ctx[1].params = AllParams
    /\ ctx[1].invoke_param_count = NoMetadata
    /\ ctx[1].insts[Len(ctx[1].insts)].opcode = "ret"
    /\ StoredThrough(ctx[1]) = {}
    /\ readonly_idxs[1] = {0, 1}


\* The argument positions <<i, j>> (invoke i, position j counted from 0) of
\* a function that receive a pointer rooted at the parameter with index r.
PositionsRootedAt(fn, r) ==
    {q \in InvokesOf(fn) \X (0..Len(fn.insts)) :
        /\ q[2] + 2 <= Len(fn.insts[q[1]].operands)
        /\ IsVariable(fn.insts[q[1]].operands[q[2] + 2])
        /\ r \in DeclaredRoots(fn, fn.insts[q[1]].operands[q[2] + 2].n)}

\* Position q of fn's invokes is a readonly position of the callee in the
\* final result.
ReadonlyPosition(fn, q) ==
    /\ KnownCallee(ctx, fn.insts[q[1]]) # <<>>
    /\ q[2] \in readonly_idxs[KnownCallee(ctx, fn.insts[q[1]])[1]]

\* C15: in the final result a parameter is readonly only if every invoke
\* argument position that receives a pointer rooted at it is a readonly
\* position of the callee; and a parameter that is never a root of a store
\* destination and is forwarded to readonly positions only is readonly.
C15_ReadonlyPropagates ==
    ro_pc = RoDone =>
        \A k \in 1..Len(ctx) : \A r \in AllParamRoots(ctx[k]) :
            /\ r \in readonly_idxs[k] =>
                  \A q \in PositionsRootedAt(ctx[k], r) : ReadonlyPosition(ctx[k], q)
            /\ (/\ r \notin WrittenRoots(ctx[k])
                /\ \A q \in PositionsRootedAt(ctx[k], r) : ReadonlyPosition(ctx[k], q))
                  => r \in readonly_idxs[k]

\* The chain f -> g -> h where h only reads: a is readonly in all three.
C15_Witness ==
    /\ ro_pc = RoDone
    /\ \E i \in InvokesOf(ctx[1]) :
          ctx[1].insts[i].operands = <<Label("g"), Var("a")>>
    /\ \E i \in InvokesOf(ctx[2]) :
          ctx[2].insts[i].operands = <<Label("h"), Var("a")>>
    /\ InvokesOf(ctx[3]) = {} /\ StoredThrough(ctx[3]) = {}
    /\ 0 \in readonly_idxs[1] /\ 0 \in readonly_idxs[2] /\ 0 \in readonly_idxs[3]


(***************************************************************************)
(* Invoke copy forwarding: invoke_copy_forwarding_common.py,               *)
(* readonly_invoke_arg_copy_forwarding.py,                                 *)
(* internal_return_copy_forwarding.py                                      *)
(*                                                                         *)
(* The caller is one basic block b, a sequence of instructions.  Operand   *)
(* positions are counted from 0 as in the code: operands[pos] is           *)
(* b[i].operands[pos + 1].  mcopy is [size, src, dst]; mstore is           *)
(* [value, ptr]; invoke is [target, args...].                              *)
(***************************************************************************)
Nop == Inst("nop", NoOutput, <<>>)

\* The analyses a function's cache can hold, and the cache operations.
Analyses ==
    {"CFGAnalysis", "DFGAnalysis", "DominatorTreeAnalysis", "LivenessAnalysis",
     "BasePtrAnalysis", "MemoryAliasAnalysis"}

RequestAnalysis(cache, analysis) == cache \cup {analysis}
InvalidateAnalysis(cache, analysis) == cache \ {analysis}

\* _prepare: the analyses the forwarding passes request.
Prepare(cache) ==
    RequestAnalysis(RequestAnalysis(RequestAnalysis(RequestAnalysis(cache,
        "DFGAnalysis"), "DominatorTreeAnalysis"), "BasePtrAnalysis"),
        "MemoryAliasAnalysis")

\* _finish
Finish(cache, did_change) ==
    IF did_change THEN InvalidateAnalysis(cache, "LivenessAnalysis") ELSE cache

\* dfg.get_producing_instruction(var): index into b, 0 for None
Producer(b, var) ==
    LET at == {i \in 1..Len(b) : b[i].output = var}
    IN  IF at = {} THEN 0 ELSE Min(at)

\* inst.parent: the instructions of a function are kept in block order, a
\* block ends at its terminator, and the block of instruction i is
\* numbered by the terminators before it.
BlockTerminators == {"jmp", "jnz", "ret", "return", "revert", "stop"}
BlockOf(b, i) == Cardinality({j \in 1..(i - 1) : b[j].opcode \in BlockTerminators})

\* _assign_root_var
RECURSIVE AssignRootVar(_, _)
AssignRootVar(b, var) ==
    LET i == Producer(b, var)
    IN  IF i = 0 \/ b[i].opcode # "assign" THEN var
        ELSE IF ~IsVariable(b[i].operands[1]) THEN var
        ELSE AssignRootVar(b, b[i].operands[1].n)

\* _assign_root
AssignRoot(b, op) == IF ~IsVariable(op) THEN op ELSE Var(AssignRootVar(b, op.n))

\* _is_alloca_like, on the producer of var
IsAllocaLike(b, var) ==
    Producer(b, var) # 0 /\ b[Producer(b, var)].opcode \in {"alloca", "calloca"}

\* _collect_assign_aliases
RECURSIVE CollectAssignAliases(_, _)
CollectAssignAliases(b, aliases) ==
    LET more == aliases \cup
                  {b[i].output : i \in {j \in 1..Len(b) :
                       /\ b[j].opcode = "assign"
                       /\ \E v \in aliases : Var(v) \in Range(b[j].operands)}}
    IN  IF more = aliases THEN aliases ELSE CollectAssignAliases(b, more)

\* _iter_alias_use_positions: <<var, instruction index, operand position>>
AliasUsePositions(b, aliases) ==
    {u \in aliases \X (1..Len(b)) \X (0..Len(b)) :
        /\ u[3] + 1 <= Len(b[u[2]].operands)
        /\ b[u[2]].operands[u[3] + 1] = Var(u[1])}

\* _is_assign_output_use
IsAssignOutputUse(b, i, pos) == b[i].opcode = "assign" /\ pos = 0

\* _get_invoke_callee: <<name>>, or <<>> for None
GetInvokeCallee(meta, inst) ==
    IF IsLabel(inst.operands[1]) /\ inst.operands[1].n \in DOMAIN meta
    THEN <<inst.operands[1].n>> ELSE <<>>

\* _is_readonly_invoke_operand
IsReadonlyInvokeOperand(meta, inst, operand_idx) ==
    /\ operand_idx # 0
    /\ GetInvokeCallee(meta, inst) # <<>>
    /\ (operand_idx - 1) \in meta[GetInvokeCallee(meta, inst)[1]].readonly_idxs

\* _invoke_has_return_buffer
InvokeHasReturnBuffer(meta, inst) ==
    /\ GetInvokeCallee(meta, inst) # <<>>
    /\ LET callee == meta[GetInvokeCallee(meta, inst)[1]]
       IN  /\ callee.invoke_param_count # NoMetadata
           /\ callee.has_memory_return_buffer_param # "None"
           /\ Len(inst.operands) - 1 = callee.invoke_param_count
           /\ callee.has_memory_return_buffer_param = "True"

\* Memory locations of the base-pointer and alias analyses, reduced to the
\* allocation site they lie in: EMPTY, UNDEFINED (anywhere), or a site.
EmptyLocation == [kind |-> "empty", alloca |-> ""]
UndefinedLocation == [kind |-> "undefined", alloca |-> ""]
SiteLocation(a) == [kind |-> "alloca", alloca |-> a]

\* base_ptr.ptr_from_op(op): <<allocation site>>, or <<>> for None (a
\* pointer that is not derived from an alloca/calloca)
RECURSIVE BaseAlloca(_, _)
BaseAlloca(b, var) ==
    LET i == Producer(b, var)
    IN  IF i = 0 THEN <<>>
        ELSE IF b[i].opcode \in {"alloca", "calloca"} THEN <<var>>
        ELSE IF b[i].opcode \in {"assign", "gep"} /\ IsVariable(b[i].operands[1])
        THEN BaseAlloca(b, b[i].operands[1].n)
        ELSE <<>>

PtrFromOp(b, op) == IF IsVariable(op) THEN BaseAlloca(b, op.n) ELSE <<>>

LocationOf(b, op) ==
    IF PtrFromOp(b, op) = <<>> THEN UndefinedLocation
    ELSE SiteLocation(PtrFromOp(b, op)[1])

\* base_ptr.get_read_location(inst, MEMORY)
ReadLocation(b, inst) ==
    IF inst.opcode = "mcopy" THEN LocationOf(b, inst.operands[2])
    ELSE IF inst.opcode = "mload" THEN LocationOf(b, inst.operands[1])
    ELSE IF inst.opcode = "invoke" THEN UndefinedLocation
    ELSE EmptyLocation

\* inst.get_write_effects() & Effects.MEMORY != EMPTY
WritesMemory(inst) == inst.opcode \in {"mstore", "mcopy", "calldatacopy", "invoke"}

\* base_ptr.get_write_location(inst, MEMORY)
WriteLocation(b, inst) ==
    IF inst.opcode = "mstore" THEN LocationOf(b, inst.operands[2])
    ELSE IF inst.opcode \in {"mcopy", "calldatacopy"}
    THEN LocationOf(b, inst.operands[3])
    ELSE IF inst.opcode = "invoke" THEN UndefinedLocation
    ELSE EmptyLocation

\* mem_alias.may_alias
MayAlias(l1, l2) ==
    /\ l1.kind # "empty" /\ l2.kind # "empty"
    /\ \/ l1.kind = "undefined"
       \/ l2.kind = "undefined"
       \/ l1.alloca = l2.alloca

HasSrcClobberBetweenNever(b, ci, rewrite_sites) == FALSE

\* _has_src_clobber_between; rewrite_sites is a set of <<index, pos>>
HasSrcClobberBetween(b, ci, rewrite_sites) ==
    LET src_loc == ReadLocation(b, b[ci])
    IN  /\ src_loc.kind # "empty"
        /\ \E site \in rewrite_sites :
              \E i \in (ci + 1)..(site[1] - 1) :
                  /\ WritesMemory(b[i])
                  /\ MayAlias(src_loc, WriteLocation(b, b[i]))

\* _has_mutable_same_source_sibling_arg
HasMutableSameSourceSiblingArg(b, meta, rewrite_sites, src_root) ==
    \E site \in rewrite_sites :
        \E pos \in 0..(Len(b[site[1]].operands) - 1) :
            /\ pos # 0 /\ pos # site[2]
            /\ ~IsReadonlyInvokeOperand(meta, b[site[1]], pos)
            /\ AssignRoot(b, b[site[1]].operands[pos + 1]) = src_root

\* The uses of tmp's aliases that _try_forward_readonly_copy rewrites, and
\* whether it met a use that makes it give up.
RewriteSites(b, meta, ci, aliases) ==
    {<<u[2], u[3]>> : u \in {w \in AliasUsePositions(b, aliases) :
        /\ ~IsAssignOutputUse(b, w[2], w[3])
        /\ b[w[2]].opcode = "invoke"
        /\ IsReadonlyInvokeOperand(meta, b[w[2]], w[3])}}

\* A variant that gives up only for copies and invokes, so that a load from
\* or a store to tmp does not stop the forwarding.
HasForeignUseAmongCopiesAndInvokes(b, meta, ci, aliases) ==
    \E u \in AliasUsePositions(b, aliases) :
        /\ b[u[2]].opcode \in {"mcopy", "invoke"}
        /\ ~(b[u[2]].opcode = "mcopy" /\ u[3] = 2 /\ u[2] = ci)
        /\ ~(/\ b[u[2]].opcode = "invoke"
             /\ IsReadonlyInvokeOperand(meta, b[u[2]], u[3]))

HasForeignUse(b, meta, ci, aliases) ==
    \E u \in AliasUsePositions(b, aliases) :
        /\ ~IsAssignOutputUse(b, u[2], u[3])
        /\ ~(b[u[2]].opcode = "mcopy" /\ u[3] = 2 /\ u[2] = ci)
        /\ ~(/\ b[u[2]].opcode = "invoke"
             /\ IsReadonlyInvokeOperand(meta, b[u[2]], u[3]))

\* self.updater.update(invoke_inst, opcode, new_operands) for every rewrite
\* site, then self.updater.nop(copy_inst)
ForwardReadonlyCopy(b, ci, rewrite_sites, src) ==
    [i \in 1..Len(b) |->
        IF i = ci THEN Nop
        ELSE [b[i] EXCEPT !.operands =
                 [k \in 1..Len(b[i].operands) |->
                     IF <<i, k - 1>> \in rewrite_sites THEN src
                     ELSE b[i].operands[k]]]]

\* A variant of _try_forward_readonly_copy that removes the copy before it
\* has looked for a clobbering write.
TryForwardReadonlyCopyNopsEarly(b, meta, ci) ==
    LET dst == b[ci].operands[3]
        root == AssignRootVar(b, dst.n)
        aliases == CollectAssignAliases(b, {root})
        rewrite_sites == RewriteSites(b, meta, ci, aliases)
        src == AssignRoot(b, b[ci].operands[2])
    IN  IF ~IsVariable(dst) THEN b
        ELSE IF ~IsAllocaLike(b, root) THEN b
        ELSE IF HasForeignUse(b, meta, ci, aliases) THEN b
        ELSE IF rewrite_sites = {} THEN b
        ELSE IF \E site \in rewrite_sites :
                    BlockOf(b, site[1]) # BlockOf(b, ci) \/ site[1] < ci
        THEN b
        ELSE IF HasSrcClobberBetween(b, ci, rewrite_sites)
        THEN [b EXCEPT ![ci] = Nop]
        ELSE IF IsVariable(src) /\ src.n \in aliases THEN b
        ELSE IF IsVariable(src)
                /\ HasMutableSameSourceSiblingArg(b, meta, rewrite_sites, src)
        THEN b
        ELSE ForwardReadonlyCopy(b, ci, rewrite_sites, src)

\* _try_forward_readonly_copy: the block afterwards (b itself for False)
TryForwardReadonlyCopy(b, meta, ci) ==
    LET dst == b[ci].operands[3]
        root == AssignRootVar(b, dst.n)
        aliases == CollectAssignAliases(b, {root})
        rewrite_sites == RewriteSites(b, meta, ci, aliases)
        src == AssignRoot(b, b[ci].operands[2])
    IN  IF ~IsVariable(dst) THEN b
        ELSE IF ~IsAllocaLike(b, root) THEN b
        ELSE IF HasForeignUse(b, meta, ci, aliases) THEN b
        ELSE IF rewrite_sites = {} THEN b
        ELSE IF \E site \in rewrite_sites :
                    BlockOf(b, site[1]) # BlockOf(b, ci) \/ site[1] < ci
        THEN b
        ELSE IF HasSrcClobberBetween(b, ci, rewrite_sites) THEN b
        ELSE IF IsVariable(src) /\ src.n \in aliases THEN b
        ELSE IF IsVariable(src)
                /\ HasMutableSameSourceSiblingArg(b, meta, rewrite_sites, src)
        THEN b
        ELSE ForwardReadonlyCopy(b, ci, rewrite_sites, src)

\* One iteration of the while loop of run_pass: every mcopy of the block, in
\* order.
RECURSIVE ForwardSweep(_, _, _)
ForwardSweep(b, meta, i) ==
    IF i > Len(b) THEN b
    ELSE IF b[i].opcode # "mcopy" THEN ForwardSweep(b, meta, i + 1)
    ELSE ForwardSweep(TryForwardReadonlyCopy(b, meta, i), meta, i + 1)

\* ReadonlyInvokeArgCopyForwardingPass.run_pass: sweeps until nothing changes
RECURSIVE ReadonlyForwardingFixpoint(_, _)
ReadonlyForwardingFixpoint(b, meta) ==
    LET next == ForwardSweep(b, meta, 1)
    IN  IF next = b THEN b ELSE ReadonlyForwardingFixpoint(next, meta)

RunReadonlyForwarding ==
    /\ fw_pc = "readonly_forwarding"
    /\ body' = ReadonlyForwardingFixpoint(body, callee_meta)
    /\ fw_cache' = Finish(Prepare(fw_cache), body' # body)
    /\ fw_pc' = "done"
    /\ UNCHANGED <<original, callee_meta>>
    /\ UNCHANGED <<sweep_at, iter_changed, fw_changed, sweeps>>
    /\ UNCHANGED <<ordVars, runVars, memVars, roVars, tmVars, ccVars>>

(***************************************************************************)
(* SpecArgFwd: ReadonlyInvokeArgCopyForwardingPass on the block            *)
(*     src = alloca 32; tmp = alloca 32; other = alloca 32;                *)
(*     t2 = assign tmp; g = gep src, 0;                                    *)
(*     mcopy tmp, <src or t2>, 32; <up to MaxBetween instructions>;        *)
(*     invoke @callee, <one or two arguments>; stop                        *)
(* for every set of readonly positions of callee.  p is a pointer of       *)
(* unknown origin.                                                         *)
(***************************************************************************)
MaxBetween == 1

Alloca(v) == Inst("alloca", v, <<Lit("32")>>)
Mstore(ptr) == Inst("mstore", NoOutput, <<Lit("1"), Var(ptr)>>)
Mcopy(dst, src) == Inst("mcopy", NoOutput, <<Lit("32"), Var(src), Var(dst)>>)

ArgFwdPrelude ==
    <<Alloca("src"), Alloca("tmp"), Alloca("other"),
      Inst("assign", "t2", <<Var("tmp")>>),
      Inst("gep", "g", <<Var("src"), Lit("0")>>)>>

CopyIndex == Len(ArgFwdPrelude) + 1

BetweenMenu ==
    {Mstore("src"), Mstore("other"), Mstore("p"), Mstore("tmp"),
     Inst("mload", "v", <<Var("src")>>),
     Inst("invoke", NoOutput, <<Label("callee"), Var("other")>>)}

ArgFwdArgs ==
    LET ptrs == {Var("tmp"), Var("t2"), Var("src"), Var("other"), Var("g")}
    IN  {<<x>> : x \in ptrs} \cup (ptrs \X ptrs)

ArgFwdBlocks ==
    {ArgFwdPrelude \o <<Mcopy("tmp", s)>> \o mid
        \o <<Inst("invoke", NoOutput, <<Label("callee")>> \o args),
             Inst("stop", NoOutput, <<>>)>> :
        s \in {"src", "t2"}, mid \in SeqsUpTo(BetweenMenu, MaxBetween),
        args \in ArgFwdArgs}

CalleeMeta(ro, count, retbuf) ==
    [readonly_idxs |-> ro, invoke_param_count |-> count,
     has_memory_return_buffer_param |-> retbuf]

InitArgFwd ==
    /\ original \in ArgFwdBlocks
    /\ body = original
    /\ callee_meta \in {[callee |-> CalleeMeta(ro, NoMetadata, "None")] :
                           ro \in SUBSET {0, 1}}
    /\ fw_pc = "readonly_forwarding"
    /\ fw_cache = Analyses
    /\ SweepIdle
    /\ OrdIdle /\ RunIdle /\ MemIdle /\ RoIdle /\ TmIdle /\ CcIdle

NextArgFwd == RunReadonlyForwarding

SpecArgFwd == InitArgFwd /\ [][NextArgFwd]_vars

\* The variables that name the copy's destination: its assign aliases.
DstAliases(b) ==
    {v \in {b[i].output : i \in 1..Len(b)} \ {NoOutput} :
        AssignRootVar(b, v) = AssignRootVar(b, b[CopyIndex].operands[3].n)}

\* The invoke argument positions <<index, pos>> after the copy that use the
\* copy's destination.
UsingSites(b) ==
    {q \in ((CopyIndex + 1)..Len(b)) \X (1..Len(b)) :
        /\ b[q[1]].opcode = "invoke"
        /\ q[2] + 1 <= Len(b[q[1]].operands)
        /\ IsVariable(b[q[1]].operands[q[2] + 1])
        /\ b[q[1]].operands[q[2] + 1].n \in DstAliases(b)}

\* An instruction strictly between the copy and instruction j writes a
\* memory location that may alias the copy's source.
SourceClobberedBefore(b, j) ==
    \E i \in (CopyIndex + 1)..(j - 1) :
        /\ WritesMemory(b[i])
        /\ MayAlias(LocationOf(b, b[CopyIndex].operands[2]), WriteLocation(b, b[i]))

\* Every use of the destination is the copy itself, a rename, or a readonly
\* position of an invoke after the copy, and there is such an invoke.
StagedForReadonlyInvoke(b, meta) ==
    /\ UsingSites(b) # {}
    /\ \A i \in 1..Len(b) : \A k \in 1..Len(b[i].operands) :
          (IsVariable(b[i].operands[k]) /\ b[i].operands[k].n \in DstAliases(b))
              => \/ b[i].opcode = "assign"
                 \/ i = CopyIndex /\ k = 3
                 \/ /\ <<i, k - 1>> \in UsingSites(b)
                    /\ IsReadonlyInvokeOperand(meta, b[i], k - 1)

\* Some using invoke passes, in a position that is not readonly, a pointer
\* into the allocation site of the copy's source.
MutableSiblingIntoSource(b, meta) ==
    \E q \in UsingSites(b) : \E pos \in 1..(Len(b[q[1]].operands) - 1) :
        /\ pos # q[2]
        /\ ~IsReadonlyInvokeOperand(meta, b[q[1]], pos)
        /\ MayAlias(LocationOf(b, b[q[1]].operands[pos + 1]),
                    LocationOf(b, b[CopyIndex].operands[2]))

Forwarded(b0, b1) ==
    /\ b1[CopyIndex] = Nop
    /\ \A q \in UsingSites(b0) :
          b1[q[1]].operands[q[2] + 1] = AssignRoot(b0, b0[CopyIndex].operands[2])

\* C16: when an instruction strictly between the copy and an invoke using
\* tmp writes memory that may alias the copy's source, the block is left as
\* it was (the copy stays, the invoke uses tmp); when tmp is staged for
\* readonly invoke positions only, its source is not tmp itself, nothing
\* between the copy and the invokes may alias the source and no mutable
\* sibling argument points into the source, the copy is removed and the
\* invoke operand is the source.
C16_ForwardUnlessSourceClobbered ==
    fw_pc = "done" =>
        /\ (\E q \in UsingSites(original) : SourceClobberedBefore(original, q[1]))
              => body = original
        /\ (/\ StagedForReadonlyInvoke(original, callee_meta)
            /\ \A q \in UsingSites(original) : ~SourceClobberedBefore(original, q[1])
            /\ original[CopyIndex].operands[2].n \notin DstAliases(original)
            /\ ~MutableSiblingIntoSource(original, callee_meta))
              => Forwarded(original, body)

\* mcopy tmp, src; mstore src; invoke @callee, tmp with a readonly first
\* position: the block is unchanged.
C16_Witness ==
    /\ fw_pc = "done"
    /\ original[CopyIndex] = Mcopy("tmp", "src")
    /\ original[CopyIndex + 1] = Mstore("src")
    /\ original[CopyIndex + 2].operands = <<Label("callee"), Var("tmp")>>
    /\ 0 \in callee_meta["callee"].readonly_idxs
    /\ body = original

\* Invoke argument positions <<index, pos>> the pass has rewritten.
RewrittenSites(b0, b1) ==
    {q \in (1..Len(b0)) \X (1..Len(b0)) :
        /\ b0[q[1]].opcode = "invoke"
        /\ q[2] + 1 <= Len(b0[q[1]].operands)
        /\ b1[q[1]].operands[q[2] + 1] # b0[q[1]].operands[q[2] + 1]}

\* Argument positions of invoke i, other than pos, that point into the
\* allocation site of the copy's source.
SiblingsIntoSource(b, i, pos) ==
    {k \in 1..(Len(b[i].operands) - 1) :
        /\ k # pos
        /\ MayAlias(LocationOf(b, b[i].operands[k + 1]),
                    LocationOf(b, b[CopyIndex].operands[2]))}

\* C17: after the pass no invoke has a rewritten readonly position while
\* another position of the same invoke that is not readonly points into the
\* memory of the forwarded source; and when all sibling positions pointing
\* into the source are readonly (and the other conditions of forwarding
\* hold) the copy is forwarded.
C17_NoMutableSiblingAlias ==
    fw_pc = "done" =>
        /\ \A q \in RewrittenSites(original, body) :
              \A k \in SiblingsIntoSource(original, q[1], q[2]) :
                  IsReadonlyInvokeOperand(callee_meta, original[q[1]], k)
        /\ (/\ StagedForReadonlyInvoke(original, callee_meta)
            /\ \A q \in UsingSites(original) : ~SourceClobberedBefore(original, q[1])
            /\ original[CopyIndex].operands[2].n \notin DstAliases(original)
            /\ \E q \in UsingSites(original) :
                  SiblingsIntoSource(original, q[1], q[2]) # {}
            /\ \A q \in UsingSites(original) :
                  \A k \in SiblingsIntoSource(original, q[1], q[2]) :
                      IsReadonlyInvokeOperand(callee_meta, original[q[1]], k))
              => Forwarded(original, body)

(***************************************************************************)
(* InternalReturnCopyForwardingPass                                        *)
(***************************************************************************)
\* _matches_alloca_size, on the producer of var
MatchesAllocaSize(b, var, expected_size) ==
    b[Producer(b, var)].operands[1] = expected_size

\* _invoke_operand_may_write
InvokeOperandMayWrite(meta, inst, operand_pos) ==
    \/ operand_pos = 1 /\ InvokeHasReturnBuffer(meta, inst)
    \/ ~IsReadonlyInvokeOperand(meta, inst, operand_pos)

InvokeMayClobberSrcNever(b, meta, inst, src_loc) == FALSE

\* _invoke_may_clobber_src
InvokeMayClobberSrc(b, meta, inst, src_loc) ==
    \E pos \in 1..(Len(inst.operands) - 1) :
        /\ InvokeOperandMayWrite(meta, inst, pos)
        /\ IsVariable(inst.operands[pos + 1])
        /\ \/ PtrFromOp(b, inst.operands[pos + 1]) = <<>>
           \/ MayAlias(src_loc, SiteLocation(PtrFromOp(b, inst.operands[pos + 1])[1]))

\* A variant of _is_internal_return_buffer_source that does not count the
\* invokes that fill ret_buf.
IsInternalReturnBufferSourceOfAnyInvokes(b, meta, src_root, ci) ==
    LET uses == {u \in AliasUsePositions(b, CollectAssignAliases(b, {src_root})) :
                    ~IsAssignOutputUse(b, u[2], u[3])}
        copy_uses == {u \in uses : b[u[2]].opcode = "mcopy" /\ u[3] = 1 /\ u[2] = ci}
        invoke_uses == {u \in uses \ copy_uses : b[u[2]].opcode = "invoke" /\ u[3] = 1}
    IN  /\ uses = copy_uses \cup invoke_uses
        /\ \A u \in invoke_uses :
              /\ BlockOf(b, u[2]) = BlockOf(b, ci)
              /\ u[2] < ci
              /\ InvokeHasReturnBuffer(meta, b[u[2]])
        /\ copy_uses # {}

\* _is_internal_return_buffer_source
IsInternalReturnBufferSource(b, meta, src_root, ci) ==
    LET uses == {u \in AliasUsePositions(b, CollectAssignAliases(b, {src_root})) :
                    ~IsAssignOutputUse(b, u[2], u[3])}
        copy_uses == {u \in uses : b[u[2]].opcode = "mcopy" /\ u[3] = 1 /\ u[2] = ci}
        invoke_uses == {u \in uses \ copy_uses : b[u[2]].opcode = "invoke" /\ u[3] = 1}
    IN  /\ uses = copy_uses \cup invoke_uses
        /\ \A u \in invoke_uses :
              /\ BlockOf(b, u[2]) = BlockOf(b, ci)
              /\ u[2] < ci
              /\ InvokeHasReturnBuffer(meta, b[u[2]])
        /\ copy_uses # {}
        /\ Cardinality({u[2] : u \in invoke_uses}) = 1

\* The instructions (indices) using an alias of dst, other than renames and
\* the copy itself.
DstUses(b, ci, dst_aliases) ==
    {u[2] : u \in {w \in AliasUsePositions(b, dst_aliases) :
        /\ ~IsAssignOutputUse(b, w[2], w[3])
        /\ ~(b[w[2]].opcode = "mcopy" /\ w[3] = 2 /\ w[2] = ci)}}

\* The clobber scan between the copy and the last rewritten use.
ClobberedBeforeLastUse(b, meta, ci, rewrite_insts) ==
    LET last_use_idx == -Min({-i : i \in rewrite_insts})
        src_loc == ReadLocation(b, b[ci])
    IN  \/ src_loc.kind = "empty"
        \/ \E i \in (ci + 1)..(last_use_idx - 1) :
              IF b[i].opcode = "invoke"
              THEN InvokeMayClobberSrc(b, meta, b[i], src_loc)
              ELSE /\ WritesMemory(b[i])
                   /\ MayAlias(src_loc, WriteLocation(b, b[i]))

\* self.updater.update_operands(use, replace_map) for every rewritten use,
\* then self.updater.nop(copy_inst)
ForwardReturnCopy(b, ci, rewrite_insts, dst_aliases, src_root) ==
    [i \in 1..Len(b) |->
        IF i = ci THEN Nop
        ELSE IF i \notin rewrite_insts THEN b[i]
        ELSE [b[i] EXCEPT !.operands =
                 [k \in 1..Len(b[i].operands) |->
                     IF IsVariable(b[i].operands[k])
                        /\ b[i].operands[k].n \in dst_aliases
                     THEN Var(src_root) ELSE b[i].operands[k]]]]

\* _try_forward_internal_return_copy: the block afterwards (b for False)
TryForwardInternalReturnCopy(b, meta, ci) ==
    LET dst == b[ci].operands[3]
        src == b[ci].operands[2]
        size == b[ci].operands[1]
        dst_root == AssignRootVar(b, dst.n)
        src_root == AssignRootVar(b, src.n)
        dst_aliases == CollectAssignAliases(b, {dst_root})
        rewrite_insts == DstUses(b, ci, dst_aliases)
    IN  IF ~IsVariable(dst) \/ ~IsVariable(src) THEN b
        ELSE IF size.k # "lit" THEN b
        ELSE IF dst_root = src_root THEN b
        ELSE IF ~IsAllocaLike(b, dst_root) \/ ~IsAllocaLike(b, src_root) THEN b
        ELSE IF ~MatchesAllocaSize(b, dst_root, size) THEN b
        ELSE IF ~MatchesAllocaSize(b, src_root, size) THEN b
        ELSE IF ~IsInternalReturnBufferSource(b, meta, src_root, ci) THEN b
        ELSE IF \E i \in rewrite_insts :
                    \/ b[i].opcode = "phi"
                    \/ BlockOf(b, i) # BlockOf(b, ci)
                    \/ ~(i > ci)
        THEN b
        ELSE IF rewrite_insts # {}
                /\ ClobberedBeforeLastUse(b, meta, ci, rewrite_insts)
        THEN b
        ELSE ForwardReturnCopy(b, ci, rewrite_insts, dst_aliases, src_root)

\* InternalReturnCopyForwardingPass.run_pass: every mcopy once, in order
RECURSIVE ReturnForwardSweep(_, _, _)
ReturnForwardSweep(b, meta, i) ==
    IF i > Len(b) THEN b
    ELSE IF b[i].opcode # "mcopy" THEN ReturnForwardSweep(b, meta, i + 1)
    ELSE ReturnForwardSweep(TryForwardInternalReturnCopy(b, meta, i), meta, i + 1)

RunInternalReturnForwarding ==
    /\ fw_pc = "return_forwarding"
    /\ body' = ReturnForwardSweep(body, callee_meta, 1)
    /\ fw_cache' = Finish(Prepare(fw_cache), body' # body)
    /\ fw_pc' = "done"
    /\ UNCHANGED <<original, callee_meta>>
    /\ UNCHANGED <<sweep_at, iter_changed, fw_changed, sweeps>>
    /\ UNCHANGED <<ordVars, runVars, memVars, roVars, tmVars, ccVars>>

(***************************************************************************)
(* SpecRetFwd: InternalReturnCopyForwardingPass on the block               *)
(*     src = alloca 32; dst = alloca <32 or 64>; other = alloca 32;        *)
(*     invoke @producer, src; mcopy dst, src, 32;                          *)
(*     <up to MaxBetween instructions>; v = mload dst; stop                *)
(* for every metadata of producer and writer.                              *)
(***************************************************************************)
RetFwdPrelude(dst_size) ==
    <<Alloca("src"), Inst("alloca", "dst", <<Lit(dst_size)>>), Alloca("other"),
      Inst("invoke", NoOutput, <<Label("producer"), Var("src")>>)>>

RetCopyIndex == Len(RetFwdPrelude("32")) + 1

RetBetweenMenu ==
    {Inst("invoke", NoOutput, <<Label("writer"), Var(x)>>) : x \in {"other", "p", "dst"}}
    \cup {Mstore("other"), Mstore("p"), Mstore("src"),
          Inst("mload", "w", <<Var("dst")>>)}

RetFwdBlocks ==
    {RetFwdPrelude(n) \o <<Mcopy("dst", "src")>> \o mid
        \o <<Inst("mload", "v", <<Var("dst")>>), Inst("stop", NoOutput, <<>>)>> :
        n \in {"32", "64"}, mid \in SeqsUpTo(RetBetweenMenu, MaxBetween)}

RetFwdMeta ==
    {[producer |-> CalleeMeta({}, 1, pr), writer |-> CalleeMeta(ro, 1, wr)] :
        pr \in {"True", "False"}, wr \in {"True", "False", "None"},
        ro \in SUBSET {0}}

InitRetFwd ==
    /\ original \in RetFwdBlocks
    /\ body = original
    /\ callee_meta \in RetFwdMeta
    /\ fw_pc = "return_forwarding"
    /\ fw_cache = Analyses
    /\ SweepIdle
    /\ OrdIdle /\ RunIdle /\ MemIdle /\ RoIdle /\ TmIdle /\ CcIdle

NextRetFwd == RunInternalReturnForwarding

SpecRetFwd == InitRetFwd /\ [][NextRetFwd]_vars

\* The last instruction that uses dst after the copy.
LastDstUse(b) ==
    -Min({-i : i \in {j \in (RetCopyIndex + 1)..Len(b) :
                        Var("dst") \in Range(b[j].operands)}})

\* An operand position of an invoke through which the callee may write: a
\* position that is not readonly, or position 1 of a callee with a memory
\* return buffer.
WritablePositions(meta, inst) ==
    {pos \in 1..(Len(inst.operands) - 1) :
        \/ ~IsReadonlyInvokeOperand(meta, inst, pos)
        \/ pos = 1 /\ InvokeHasReturnBuffer(meta, inst)}

\* Instruction i writes a memory location that may alias ret_buf.
ClobbersRetBuf(b, meta, i) ==
    IF b[i].opcode = "invoke"
    THEN \E pos \in WritablePositions(meta, b[i]) :
            /\ IsVariable(b[i].operands[pos + 1])
            /\ MayAlias(LocationOf(b, b[i].operands[pos + 1]),
                        LocationOf(b, Var("src")))
    ELSE /\ WritesMemory(b[i])
         /\ MayAlias(WriteLocation(b, b[i]), LocationOf(b, Var("src")))

RetBufClobbered(b, meta) ==
    \E i \in (RetCopyIndex + 1)..(LastDstUse(b) - 1) : ClobbersRetBuf(b, meta, i)

\* dst's uses read ret_buf and the copy is gone.
ReturnForwarded(b0, b1) ==
    /\ b1[RetCopyIndex] = Nop
    /\ \A i \in 1..Len(b1) : Var("dst") \notin Range(b1[i].operands)
    /\ \A i \in (RetCopyIndex + 1)..Len(b0) : \A k \in 1..Len(b0[i].operands) :
          b1[i].operands[k] =
              IF b0[i].operands[k] = Var("dst") THEN Var("src") ELSE b0[i].operands[k]

\* ret_buf is filled by one invoke of a callee with a memory return buffer,
\* is otherwise used by the copy only, and dst has the size of the copy.
ReturnBufferPattern(b, meta) ==
    /\ InvokeHasReturnBuffer(meta, b[RetCopyIndex - 1])
    /\ b[Producer(b, "dst")].operands[1] = b[RetCopyIndex].operands[1]
    /\ \A i \in (RetCopyIndex + 1)..Len(b) : Var("src") \notin Range(b[i].operands)

\* C18: the return-buffer copy is removed, and dst's uses retargeted to
\* ret_buf, only if no instruction strictly between the copy and the last
\* use of dst writes memory that may alias ret_buf, where an invoke
\* clobbers iff one of its writable operands may alias ret_buf or is a
\* pointer of unknown shape; and when the pattern holds and nothing
\* clobbers, in particular across an invoke writing a disjoint buffer, the
\* copy is forwarded.
C18_ReturnForwardUnlessClobbered ==
    fw_pc = "done" =>
        /\ body # original => ~RetBufClobbered(original, callee_meta)
        /\ (ReturnBufferPattern(original, callee_meta)
            /\ ~RetBufClobbered(original, callee_meta))
              => ReturnForwarded(original, body)

\* invoke @producer, src; mcopy dst, src; invoke @writer, other;
\* v = mload dst, with writer writing its return buffer: forwarded.
C18_Witness ==
    /\ fw_pc = "done"
    /\ original[RetCopyIndex + 1] =
          Inst("invoke", NoOutput, <<Label("writer"), Var("other")>>)
    /\ InvokeHasReturnBuffer(callee_meta, original[RetCopyIndex + 1])
    /\ body[RetCopyIndex] = Nop
    /\ body[RetCopyIndex + 2] = Inst("mload", "v", <<Var("src")>>)


\* ---------------------------------------------------------------------------
\* Tail merge (tail_merge.py): reachable, non-entry, halting blocks that are
\* identical up to a renaming of their local variables are coalesced into the
\* first of them, and the labels of the removed blocks are redirected.
\* ---------------------------------------------------------------------------

Block(label, instructions) == [label |-> label, instructions |-> instructions]

\* A data item of the data segment that is not a label.
Bytes == [k |-> "bytes", n |-> "00"]

Terminator(bb) == bb.instructions[Len(bb.instructions)]

\* bb.is_halting: the block ends in a terminator without successors.
HaltingOpcodes == {"revert", "stop", "return"}
IsHalting(bb) ==
    /\ Len(bb.instructions) > 0
    /\ Terminator(bb).opcode \in HaltingOpcodes

\* The successors of a block in the CFG: the labels its terminator names.
Successors(bb) ==
    IF Len(bb.instructions) > 0 /\ Terminator(bb).opcode \in {"jmp", "jnz"}
    THEN {op.n : op \in {o \in Range(Terminator(bb).operands) : IsLabel(o)}}
    ELSE {}

\* cfg.is_reachable: the labels reachable from the entry block.
RECURSIVE CfgReachableFrom(_, _, _)
CfgReachableFrom(bbs, seen, frontier) ==
    IF frontier = {} THEN seen
    ELSE LET nxt == (UNION {Successors(bbs[i]) :
                        i \in {j \in 1..Len(bbs) : bbs[j].label \in frontier}})
                    \ (seen \cup frontier)
         IN  CfgReachableFrom(bbs, seen \cup frontier, nxt)

CfgReachable(bbs) == CfgReachableFrom(bbs, {}, {bbs[1].label})

\* inst.get_input_variables() and inst.get_outputs().
InputVariables(inst) == {op.n : op \in {o \in Range(inst.operands) : IsVariable(o)}}
Outputs(inst) == IF inst.output = NoOutput THEN <<>> ELSE <<inst.output>>

\* The first loop of _block_signature: no phi, and every variable read is
\* the output of an earlier instruction of the block.
RECURSIVE ReadsOnlyLocals(_, _, _)
ReadsOnlyLocals(insts, i, defined) ==
    IF i > Len(insts) THEN TRUE
    ELSE IF insts[i].opcode = "phi" THEN FALSE
    ELSE IF \E v \in InputVariables(insts[i]) : v \notin defined THEN FALSE
    ELSE ReadsOnlyLocals(insts, i + 1, defined \cup Range(Outputs(insts[i])))

\* f"v{len(var_map)}": the canonical names, in order of first occurrence.
CanonNames == <<"v0", "v1", "v2", "v3", "v4", "v5">>

\* var_map after the variables of names have been seen, in this order.
RECURSIVE ExtendVarMap(_, _)
ExtendVarMap(var_map, names) ==
    IF names = <<>> THEN var_map
    ELSE ExtendVarMap(IF Head(names) \in Range(var_map) THEN var_map
                      ELSE Append(var_map, Head(names)),
                      Tail(names))

CanonVar(var_map, v) ==
    CanonNames[CHOOSE i \in 1..Len(var_map) : var_map[i] = v]

VarOperandNames(operands) ==
    LET vs == SelectSeq(operands, IsVariable)
    IN  [i \in 1..Len(vs) |-> vs[i].n]

\* raise CompilerPanic(f"unexpected operand type in tail merge: ...")
PanicOperand == [k |-> "CompilerPanic", n |-> "unexpected operand type in tail merge"]

\* A variant of _canon_operand that gives every variable the first
\* canonical name.
CanonOperandOneName(var_map, op) ==
    IF IsVariable(op) THEN Var(CanonNames[1])
    ELSE IF IsLiteral(op) THEN Lit(op.n)
    ELSE IF IsLabel(op) THEN Label(op.n)
    ELSE PanicOperand

\* _canon_operand
CanonOperand(var_map, op) ==
    IF IsVariable(op) THEN Var(CanonVar(var_map, op.n))
    ELSE IF IsLiteral(op) THEN Lit(op.n)
    ELSE IF IsLabel(op) THEN Label(op.n)
    ELSE PanicOperand

\* The second loop of _block_signature: (opcode, outputs, operands) of every
\* instruction, outputs canonicalised before operands.
RECURSIVE CanonInsts(_, _, _)
CanonInsts(insts, i, var_map) ==
    IF i > Len(insts) THEN <<>>
    ELSE LET inst == insts[i]
             m1   == ExtendVarMap(var_map, Outputs(inst))
             m2   == ExtendVarMap(m1, VarOperandNames(inst.operands))
             outs == [k \in 1..Len(Outputs(inst)) |-> CanonVar(m2, Outputs(inst)[k])]
             ops  == [k \in 1..Len(inst.operands) |-> CanonOperand(m2, inst.operands[k])]
         IN  <<[opcode |-> inst.opcode, outputs |-> outs, operands |-> ops]>>
             \o CanonInsts(insts, i + 1, m2)

\* _block_signature returning None.
NoSignature == <<>>

\* _block_signature left by the CompilerPanic of _canon_operand.
PanicSignature == <<[opcode |-> "CompilerPanic", outputs |-> <<>>, operands |-> <<>>]>>

Raises(sig) ==
    \E i \in 1..Len(sig) : PanicOperand \in Range(sig[i].operands)

\* A variant of _block_signature without the first loop.
BlockSignatureAcceptsAnyBlock(bb) ==
    IF ~IsHalting(bb) THEN NoSignature
    ELSE LET sig == CanonInsts(bb.instructions, 1, <<>>)
         IN  IF Raises(sig) THEN PanicSignature ELSE sig

\* _block_signature
BlockSignature(bb) ==
    IF ~IsHalting(bb) THEN NoSignature
    ELSE IF ~ReadsOnlyLocals(bb.instructions, 1, {}) THEN NoSignature
    ELSE LET sig == CanonInsts(bb.instructions, 1, <<>>)
         IN  IF Raises(sig) THEN PanicSignature ELSE sig

EmptyLabelMap == [l \in {} |-> ""]

\* The loop of _merge_equivalent_tails over the blocks in function order:
\* groups maps a signature to its keeper, label_map a removed label to the
\* keeper's label.
RECURSIVE MergeLoop(_, _, _, _, _)
MergeLoop(bbs, reach, i, groups, label_map) ==
    IF i > Len(bbs) THEN label_map
    ELSE LET bb  == bbs[i]
             sig == BlockSignature(bb)
         IN  IF i = 1 \/ bb.label \notin reach \/ sig = NoSignature
             THEN MergeLoop(bbs, reach, i + 1, groups, label_map)
             ELSE IF \E g \in 1..Len(groups) : groups[g].signature = sig
             THEN LET g == CHOOSE h \in 1..Len(groups) : groups[h].signature = sig
                  IN  MergeLoop(bbs, reach, i + 1, groups,
                                label_map @@ (bb.label :> groups[g].keeper))
             ELSE MergeLoop(bbs, reach, i + 1,
                            Append(groups, [signature |-> sig, keeper |-> bb.label]),
                            label_map)

\* _merge_equivalent_tails is left by a CompilerPanic: some block it asks
\* the signature of has an operand that _canon_operand does not know.
MergePanics(bbs) ==
    LET reach == CfgReachable(bbs)
    IN  \E i \in 2..Len(bbs) :
            bbs[i].label \in reach /\ BlockSignature(bbs[i]) = PanicSignature

\* _merge_equivalent_tails: the label map; the blocks it maps are removed.
MergeEquivalentTails(bbs) == MergeLoop(bbs, CfgReachable(bbs), 1, <<>>, EmptyLabelMap)

RemoveBasicBlocks(bbs, label_map) ==
    SelectSeq(bbs, LAMBDA bb : bb.label \notin DOMAIN label_map)

\* replace_operands on one operand or data item.
ReplaceLabel(label_map, op) ==
    IF IsLabel(op) /\ op.n \in DOMAIN label_map THEN Label(label_map[op.n]) ELSE op

ReplaceOperands(bb, label_map) ==
    Block(bb.label,
          [i \in 1..Len(bb.instructions) |->
              Inst(bb.instructions[i].opcode, bb.instructions[i].output,
                   [k \in 1..Len(bb.instructions[i].operands) |->
                       ReplaceLabel(label_map, bb.instructions[i].operands[k])])])

\* A variant of _replace_all_labels that leaves the data segment alone.
ReplaceAllLabelsInBlocksOnly(bbs, data, label_map) ==
    [blocks |-> [i \in 1..Len(bbs) |-> ReplaceOperands(bbs[i], label_map)],
     data   |-> data]

\* _replace_all_labels: every block's operands, then the data segment.
ReplaceAllLabels(bbs, data, label_map) ==
    [blocks |-> [i \in 1..Len(bbs) |-> ReplaceOperands(bbs[i], label_map)],
     data   |-> [i \in 1..Len(data) |-> ReplaceLabel(label_map, data[i])]]

\* TailMergePass.run_pass.
TailMergeRunPass ==
    /\ tm_pc = "start"
    /\ LET label_map == MergeEquivalentTails(blocks)
           kept      == RemoveBasicBlocks(blocks, label_map)
           replaced  == ReplaceAllLabels(kept, data_segment, label_map)
           cache     == RequestAnalysis(tm_cache, "CFGAnalysis")
       IN  IF MergePanics(blocks)
           THEN /\ tm_cache' = cache
                /\ tm_pc' = "panic"
                /\ UNCHANGED <<blocks, data_segment>>
           ELSE IF DOMAIN label_map # {}
           THEN /\ blocks' = replaced.blocks
                /\ data_segment' = replaced.data
                /\ tm_cache' = InvalidateAnalysis(
                                   InvalidateAnalysis(cache, "CFGAnalysis"),
                                   "DFGAnalysis")
                /\ tm_pc' = "done"
           ELSE /\ blocks' = kept
                /\ data_segment' = data_segment
                /\ tm_cache' = cache
                /\ tm_pc' = "done"
    /\ UNCHANGED <<before, ordVars, runVars, memVars, roVars, fwVars, ccVars>>

\* ---- SpecTailMerge: the functions of test_tail_merge.py ----

\* The number of tail blocks after main and dispatch.
MaxTails == 3

TailNames == <<"t1", "t2", "t3", "t4">>
LocalX    == <<"a0", "b0", "c0", "d0">>
LocalY    == <<"a1", "b1", "c1", "d1">>
Tails     == 1..MaxTails

Revert == Inst("revert", NoOutput, <<Lit("0"), Lit("0")>>)
Stop   == Inst("stop", NoOutput, <<>>)

\* The bodies a tail block may have: the blocks of the tests, with the
\* locals named after the block.
TailBodies(i) ==
    << <<Revert>>,
      <<Stop>>,
      <<Inst("revert", NoOutput, <<Lit("0")>>)>>,
      <<Inst("assign", LocalX[i], <<Lit("1")>>),
        Inst("add", LocalY[i], <<Var(LocalX[i]), Lit("2")>>), Revert>>,
      <<Inst("assign", LocalX[i], <<Lit("1")>>),
        Inst("add", LocalY[i], <<Var(LocalX[i]), Lit("3")>>), Revert>>,
      <<Inst("phi", LocalX[i], <<Label("main"), Var("cond1"),
                                 Label("dispatch"), Var("cond2")>>), Revert>>,
      <<Inst("assert", NoOutput, <<Var("cond1")>>), Revert>>,
      <<Inst("jmp", NoOutput, <<Label(TailNames[1])>>)>>,
      <<Inst("assign", LocalX[i], <<Label("dispatch")>>), Revert>>,
      <<Inst("assign", LocalX[i], <<Label(TailNames[MaxTails])>>), Revert>> >>

BodyKinds == 1..Len(TailBodies(1))

\* main branches to the first tail and to dispatch, dispatch to two tails.
MainBlock ==
    Block("main", <<Inst("source", "cond1", <<>>),
                    Inst("jnz", NoOutput,
                         <<Var("cond1"), Label(TailNames[1]), Label("dispatch")>>)>>)

DispatchBlock(y, z) ==
    Block("dispatch", <<Inst("source", "cond2", <<>>),
                        Inst("jnz", NoOutput,
                             <<Var("cond2"), Label(TailNames[y]), Label(TailNames[z])>>)>>)

TailFunctions ==
    { <<MainBlock, DispatchBlock(t[1], t[2])>>
         \o [i \in Tails |-> Block(TailNames[i], TailBodies(i)[kinds[i]])] :
      t \in {p \in Tails \X Tails : p[1] <= p[2] /\ p[2] <= p[1] + 1},
      kinds \in [Tails -> BodyKinds] }

\* test_no_merge_entry_block: the entry block halts, as the blocks after it.
HaltedEntryFunctions ==
    { <<Block("main", <<Stop>>)>>
         \o [i \in Tails |-> Block(TailNames[i], TailBodies(i)[kinds[i]])] :
      kinds \in [Tails -> {1, 2}] }

\* The data segment: no label, or label items naming tail blocks.
DataSegments ==
    { <<Bytes>>, <<Label(TailNames[2]), Bytes, Label(TailNames[MaxTails])>> }

InitTailMerge ==
    /\ blocks \in TailFunctions \cup HaltedEntryFunctions
    /\ data_segment \in DataSegments
    /\ before = [blocks |-> blocks, data |-> data_segment]
    /\ tm_pc = "start"
    /\ tm_cache = Analyses
    /\ OrdIdle /\ RunIdle /\ MemIdle /\ RoIdle /\ FwIdle /\ CcIdle

NextTailMerge == TailMergeRunPass

SpecTailMerge == InitTailMerge /\ [][NextTailMerge]_vars


\* ---- what the pass is to do, stated on the function before the pass ----

HasPhi(bb) == \E i \in 1..Len(bb.instructions) : bb.instructions[i].opcode = "phi"

\* Some instruction reads a variable that no earlier instruction of the
\* block defines.
ReadsLiveIn(bb) ==
    \E i \in 1..Len(bb.instructions) :
        \E op \in Range(bb.instructions[i].operands) :
            /\ IsVariable(op)
            /\ \A j \in 1..(i - 1) : bb.instructions[j].output # op.n

MergeCandidates(bbs) ==
    LET reach == CfgReachable(bbs)
    IN  {i \in 2..Len(bbs) :
            /\ bbs[i].label \in reach
            /\ IsHalting(bbs[i])
            /\ ~HasPhi(bbs[i])
            /\ ~ReadsLiveIn(bbs[i])}

\* The variable written (k = 0) or read (k > 0) at a place of a block.
VarAt(insts, s) ==
    IF s[2] = 0 THEN insts[s[1]].output
    ELSE IF IsVariable(insts[s[1]].operands[s[2]]) THEN insts[s[1]].operands[s[2]].n
    ELSE NoOutput

VarSlots(insts) ==
    {s \in UNION {{<<i, k>> : k \in 0..Len(insts[i].operands)} : i \in 1..Len(insts)} :
        VarAt(insts, s) # NoOutput}

\* Same opcodes, operand counts, literals and labels, variables at the
\* same places.
SameShape(A, B) ==
    /\ Len(A) = Len(B)
    /\ \A i \in 1..Len(A) :
          /\ A[i].opcode = B[i].opcode
          /\ (A[i].output = NoOutput) <=> (B[i].output = NoOutput)
          /\ Len(A[i].operands) = Len(B[i].operands)
          /\ \A k \in 1..Len(A[i].operands) :
                /\ A[i].operands[k].k = B[i].operands[k].k
                /\ ~IsVariable(A[i].operands[k]) => A[i].operands[k] = B[i].operands[k]

\* Two places hold the same variable in A iff they do in B.
SameNaming(A, B) ==
    \A s1, s2 \in VarSlots(A) :
        (VarAt(A, s1) = VarAt(A, s2)) <=> (VarAt(B, s1) = VarAt(B, s2))

\* Equal up to a renaming of the variables.
Interchangeable(A, B) == SameShape(A, B) /\ SameNaming(A, B)

\* The first of the candidates cands, in function order, that block i is
\* equal to.
SurvivorOf(bbs, cands, i) ==
    LET equal == {j \in cands : Interchangeable(bbs[j].instructions, bbs[i].instructions)}
    IN  CHOOSE j \in equal : \A h \in equal : j <= h

\* The label of every candidate that is not the first of its group, mapped
\* to the label of the first.
SurvivorLabels(bbs) ==
    LET cands == MergeCandidates(bbs)
        first == [i \in cands |-> SurvivorOf(bbs, cands, i)]
        dups  == {i \in cands : first[i] # i}
    IN  [l \in {bbs[i].label : i \in dups} |->
            bbs[first[CHOOSE d \in dups : bbs[d].label = l]].label]

\* A label of a removed block becomes the label of its survivor.
Redirected(survivors, op) ==
    IF IsLabel(op) /\ op.n \in DOMAIN survivors THEN Label(survivors[op.n]) ELSE op

LabelsIn(bbs, data) ==
    {op.n : op \in {o \in (UNION {UNION {Range(bbs[i].instructions[j].operands) :
                                     j \in 1..Len(bbs[i].instructions)} :
                                 i \in 1..Len(bbs)}) \cup Range(data) : IsLabel(o)}}

\* C19: after tail merge every candidate block that equals an earlier
\* candidate up to renaming is gone from the function, the first block of
\* each such group and every other block stay in their order, and every
\* label operand and every label item of the data segment that named a
\* removed block names the group's first block; no removed label is named
\* any more.  Groups of two and of three or more blocks alike.
C19_EqualTailsCoalesced ==
    tm_pc = "done" =>
        LET b0        == before.blocks
            survivors == SurvivorLabels(b0)
            gone      == DOMAIN survivors
            kept      == SelectSeq(b0, LAMBDA bb : bb.label \notin gone)
        IN  /\ Len(blocks) = Len(kept)
            /\ \A i \in 1..Len(kept) :
                  /\ blocks[i].label = kept[i].label
                  /\ Len(blocks[i].instructions) = Len(kept[i].instructions)
                  /\ \A j \in 1..Len(kept[i].instructions) :
                        /\ blocks[i].instructions[j].opcode = kept[i].instructions[j].opcode
                        /\ blocks[i].instructions[j].output = kept[i].instructions[j].output
                        /\ blocks[i].instructions[j].operands =
                              [k \in 1..Len(kept[i].instructions[j].operands) |->
                                  Redirected(survivors, kept[i].instructions[j].operands[k])]
            /\ data_segment =
                  [i \in 1..Len(before.data) |-> Redirected(survivors, before.data[i])]
            /\ LabelsIn(blocks, data_segment) \cap gone = {}

\* Three reachable blocks equal up to renaming, the second named by the
\* data segment: only the first is left and every branch and the data item
\* name it.
C19_Witness ==
    /\ tm_pc = "done"
    /\ \A i \in 1..3 : before.blocks[2 + i].instructions = TailBodies(i)[4]
    /\ before.blocks[2] = DispatchBlock(2, 3)
    /\ before.data[1] = Label(TailNames[2])
    /\ {TailNames[2], TailNames[3]} \cap {blocks[i].label : i \in 1..Len(blocks)} = {}
    /\ blocks[2] = DispatchBlock(1, 1)
    /\ blocks[3] = Block(TailNames[1], TailBodies(1)[4])
    /\ data_segment[1] = Label(TailNames[1])


\* The blocks tail merge has to leave alone: the entry, and every block
\* that is unreachable, does not halt, has a phi or reads a live-in.
ProtectedLabels(bbs) ==
    LET reach == CfgReachable(bbs)
    IN  {bbs[i].label : i \in {j \in 1..Len(bbs) :
            \/ j = 1
            \/ bbs[j].label \notin reach
            \/ ~IsHalting(bbs[j])
            \/ HasPhi(bbs[j])
            \/ ReadsLiveIn(bbs[j])}}

BlockLabels(bbs) == {bbs[i].label : i \in 1..Len(bbs)}
BlockNamed(bbs, l) == bbs[CHOOSE i \in 1..Len(bbs) : bbs[i].label = l]

MinLen(a, b) == IF Len(a) <= Len(b) THEN Len(a) ELSE Len(b)

\* Some instruction of A and the instruction of B at its place differ in
\* opcode, in operand count, in a literal or in a label operand.
DifferInShape(A, B) ==
    \E i \in 1..MinLen(A, B) :
        \/ A[i].opcode # B[i].opcode
        \/ Len(A[i].operands) # Len(B[i].operands)
        \/ \E k \in 1..MinLen(A[i].operands, B[i].operands) :
              /\ A[i].operands[k].k = B[i].operands[k].k
              /\ ~IsVariable(A[i].operands[k])
              /\ A[i].operands[k] # B[i].operands[k]

\* The blocks left are blocks of bbs0 with their instructions' shape kept.
SameInstructionsShape(bbs0, bbs1) ==
    \A a \in 1..Len(bbs1) :
        /\ bbs1[a].label \in BlockLabels(bbs0)
        /\ LET orig == BlockNamed(bbs0, bbs1[a].label).instructions
           IN  /\ Len(bbs1[a].instructions) = Len(orig)
               /\ \A j \in 1..Len(orig) :
                     Len(bbs1[a].instructions[j].operands) = Len(orig[j].operands)

\* The pairs <<l, m>> such that a label operand or data item that named l
\* before the pass names m after it, l # m.
Retargeted(bbs0, data0, bbs1, data1) ==
    LET pairs ==
          UNION {UNION {{<<BlockNamed(bbs0, bbs1[a].label).instructions[j].operands[k],
                           bbs1[a].instructions[j].operands[k]>> :
                            k \in 1..Len(bbs1[a].instructions[j].operands)} :
                        j \in 1..Len(bbs1[a].instructions)} :
                 a \in 1..Len(bbs1)}
          \cup {<<data0[i], data1[i]>> : i \in 1..Len(data0)}
    IN  {<<p[1].n, p[2].n>> : p \in {q \in pairs : IsLabel(q[1]) /\ q[1] # q[2]}}

NoMergeablePair(bbs) ==
    \A i, j \in MergeCandidates(bbs) :
        i # j => ~Interchangeable(bbs[i].instructions, bbs[j].instructions)

\* C20: tail merge leaves in the function, and leaves every reference to,
\* each block that is the entry, is unreachable, does not halt, has a phi
\* or reads a variable not defined earlier in the block; no block is
\* removed and redirected to a block from which it differs in an opcode, an
\* operand count, a literal or a label operand; and a function without two
\* mergeable blocks is unchanged, data segment included.
C20_OnlyEqualLocalTailsMerged ==
    tm_pc = "done" =>
        LET b0        == before.blocks
            protected == ProtectedLabels(b0)
            moved     == Retargeted(b0, before.data, blocks, data_segment)
        IN  /\ protected \subseteq BlockLabels(blocks)
            /\ SameInstructionsShape(b0, blocks)
            /\ Len(data_segment) = Len(before.data)
            /\ \A p \in moved :
                  /\ p[1] \notin protected
                  /\ p[2] \notin protected
                  /\ p[2] \in BlockLabels(b0)
                  /\ ~DifferInShape(BlockNamed(b0, p[1]).instructions,
                                    BlockNamed(b0, p[2]).instructions)
            /\ \A l \in BlockLabels(b0) \ BlockLabels(blocks) :
                  \E p \in moved : p[1] = l
            /\ NoMergeablePair(b0) =>
                  blocks = b0 /\ data_segment = before.data

\* Two reachable blocks with the same phi and revert, renamed, and two
\* reachable blocks asserting the same live-in: nothing is merged.
C20_Witness ==
    /\ tm_pc = "done"
    /\ before.blocks[2] = DispatchBlock(2, 3)
    /\ before.blocks[3].instructions = TailBodies(1)[6]
    /\ before.blocks[4].instructions = TailBodies(2)[6]
    /\ before.blocks[5].instructions = TailBodies(3)[6]
    /\ before.data[1] = Label(TailNames[2])
    /\ blocks = before.blocks
    /\ data_segment = before.data


\* ---------------------------------------------------------------------------
\* Calling convention (codegen_venom/calling_convention.py): which arguments
\* of an internal function are passed on the stack.
\* ---------------------------------------------------------------------------

MAX_STACK_ARGS == 6

\* A type, as far as is_word_type looks at it.
Type(memory_bytes_required, is_prim_word) ==
    [memory_bytes_required |-> memory_bytes_required, is_prim_word |-> is_prim_word]

NoType == Type(0, FALSE)   \* return_type is None

is_word_type(typ) == typ.memory_bytes_required = WordSize /\ typ.is_prim_word

\* The loop of pass_via_stack from argument i on, stack_items slots taken.
RECURSIVE PassLoop(_, _, _)
PassLoop(arguments, i, stack_items) ==
    IF i > Len(arguments) THEN <<>>
    ELSE IF ~is_word_type(arguments[i]) \/ stack_items > MAX_STACK_ARGS
         THEN <<FALSE>> \o PassLoop(arguments, i + 1, stack_items)
         ELSE <<TRUE>> \o PassLoop(arguments, i + 1, stack_items + 1)

\* pass_via_stack: the return value takes a slot if it is a word.
pass_via_stack(ft) ==
    PassLoop(ft.arguments, 1,
             IF ft.return_type # NoType /\ is_word_type(ft.return_type) THEN 1 ELSE 0)

PassViaStack ==
    /\ cc_pc = "start"
    /\ via_stack' = pass_via_stack(func_t)
    /\ cc_pc' = "done"
    /\ UNCHANGED <<func_t, ordVars, runVars, memVars, roVars, fwVars, tmVars>>

\* ---- SpecConvention: internal function types ----

\* The most arguments a function type of the family has.
MaxArgs == 7

\* uint256, uint256[1] and a two-word aggregate.
ArgTypes == {Type(WordSize, TRUE), Type(WordSize, FALSE), Type(2 * WordSize, FALSE)}

FunctionTypes ==
    {[return_type |-> r, arguments |-> a] :
        r \in ArgTypes \cup {NoType}, a \in SeqsUpTo(ArgTypes, MaxArgs)}

InitConvention ==
    /\ func_t \in FunctionTypes
    /\ via_stack = <<>>
    /\ cc_pc = "start"
    /\ OrdIdle /\ RunIdle /\ MemIdle /\ RoIdle /\ FwIdle /\ TmIdle

NextConvention == PassViaStack

SpecConvention == InitConvention /\ [][NextConvention]_vars

StackArgs == {i \in 1..Len(via_stack) : via_stack[i]}

\* C21: an argument is passed on the stack only if its type is a primitive
\* word of 32 bytes, so every other argument, a 32-byte compound included,
\* goes by memory pointer; and at most MAX_STACK_ARGS arguments are passed
\* on the stack.
C21_StackArgsAreWordsAndAtMostMax ==
    cc_pc = "done" =>
        /\ Len(via_stack) = Len(func_t.arguments)
        /\ \A i \in StackArgs : is_word_type(func_t.arguments[i])
        /\ Cardinality(StackArgs) <= MAX_STACK_ARGS


\* ---------------------------------------------------------------------------
\* The three rewriting passes side by side: each run starts from a function
\* of one of the families above and runs that pass.
\* ---------------------------------------------------------------------------

InitRewrites == InitArgFwd \/ InitRetFwd \/ InitTailMerge

NextRewrites == NextArgFwd \/ NextRetFwd \/ NextTailMerge

SpecRewrites == InitRewrites /\ [][NextRewrites]_vars

\* The copy of a block: the candidate of the forwarding passes.
TheCopy(b) == CHOOSE i \in 1..Len(b) : b[i].opcode = "mcopy"

\* The variables naming the destination of the copy through assigns.
CopyDstAliases(b) ==
    {v \in {b[i].output : i \in 1..Len(b)} \ {NoOutput} :
        AssignRootVar(b, v) = AssignRootVar(b, b[TheCopy(b)].operands[3].n)}

\* b1 is b0 with its copy forwarded completely: the copy is a nop, every
\* other instruction keeps opcode and output, an operand that named the
\* destination outside an assign names the source's root, and every other
\* operand is as it was.
CompletelyForwarded(b0, b1) ==
    LET ci   == TheCopy(b0)
        dsts == CopyDstAliases(b0)
        src  == AssignRoot(b0, b0[ci].operands[2])
    IN  /\ Len(b1) = Len(b0)
        /\ b1[ci] = Nop
        /\ \A i \in (1..Len(b0)) \ {ci} :
              /\ b1[i].opcode = b0[i].opcode
              /\ b1[i].output = b0[i].output
              /\ Len(b1[i].operands) = Len(b0[i].operands)
              /\ \A k \in 1..Len(b0[i].operands) :
                    \/ b1[i].operands[k] = b0[i].operands[k]
                       /\ (b0[i].opcode = "assign"
                           \/ ~IsVariable(b0[i].operands[k])
                           \/ b0[i].operands[k].n \notin dsts)
                    \/ /\ b0[i].opcode # "assign"
                       /\ IsVariable(b0[i].operands[k])
                       /\ b0[i].operands[k].n \in dsts
                       /\ b1[i].operands[k] = src

\* Block i of bbs0 is in bbs1 as it was, up to label operands that named
\* other blocks.
BlockUntouched(bbs0, i, bbs1) ==
    \E a \in 1..Len(bbs1) :
        /\ bbs1[a].label = bbs0[i].label
        /\ Len(bbs1[a].instructions) = Len(bbs0[i].instructions)
        /\ \A j \in 1..Len(bbs0[i].instructions) :
              /\ bbs1[a].instructions[j].opcode = bbs0[i].instructions[j].opcode
              /\ bbs1[a].instructions[j].output = bbs0[i].instructions[j].output
              /\ Len(bbs1[a].instructions[j].operands)
                    = Len(bbs0[i].instructions[j].operands)
              /\ \A k \in 1..Len(bbs0[i].instructions[j].operands) :
                    \/ bbs1[a].instructions[j].operands[k]
                          = bbs0[i].instructions[j].operands[k]
                    \/ /\ IsLabel(bbs0[i].instructions[j].operands[k])
                       /\ IsLabel(bbs1[a].instructions[j].operands[k])

\* Every label that named l before the pass names the same one label after
\* it, a label other than l.
CompletelyRedirected(l, moved, labels) ==
    /\ l \notin labels
    /\ \E m \in BlockLabels(before.blocks) \ {l} :
          \A p \in {q \in moved : q[1] = l} : p[2] = m

\* C22: a candidate of the three rewriting passes is rewritten completely
\* or not at all.  A forwarding pass leaves the block as it was or leaves
\* it with the copy removed and every use of the destination retargeted,
\* nothing else changed; tail merge leaves a block untouched with every
\* label naming it kept, or removes it with every label that named it
\* naming one other block.  A run that rewrites nothing leaves the function
\* (and the data segment) as it was and the analysis cache holds every
\* analysis it held.
C22_AllOrNothing ==
    /\ fw_pc = "done" =>
          /\ body = original \/ CompletelyForwarded(original, body)
          /\ body = original => Analyses \subseteq fw_cache
    /\ tm_pc = "done" =>
          LET b0     == before.blocks
              moved  == Retargeted(b0, before.data, blocks, data_segment)
              labels == BlockLabels(blocks)
          IN  /\ SameInstructionsShape(b0, blocks)
              /\ \A i \in 1..Len(b0) :
                    \/ /\ BlockUntouched(b0, i, blocks)
                       /\ \A p \in moved : p[1] # b0[i].label
                    \/ CompletelyRedirected(b0[i].label, moved, labels)
              /\ Len(blocks) = Len(b0) =>
                    /\ blocks = b0
                    /\ data_segment = before.data
                    /\ Analyses \subseteq tm_cache

\* The readonly copy is staged for a readonly invoke position but its
\* source is stored to before the invoke: the block and the cache are as
\* they were.
C22_Witness ==
    /\ fw_pc = "done"
    /\ original[CopyIndex] = Mcopy("tmp", "src")
    /\ original[CopyIndex + 1] = Mstore("src")
    /\ original[CopyIndex + 2].operands = <<Label("callee"), Var("tmp"), Var("t2")>>
    /\ callee_meta["callee"].readonly_idxs = {0, 1}
    /\ body = original
    /\ fw_cache = Analyses


\* C23: a pass that has changed the function has invalidated the analyses
\* the change affects: after tail merge has removed blocks or rewritten
\* labels the cache holds neither the CFG nor the data-flow graph nor
\* liveness, and after a forwarding pass has removed a copy or rewritten
\* operands the cache does not hold liveness.
C23_ChangeInvalidatesAnalyses ==
    /\ (tm_pc = "done" /\ (blocks # before.blocks \/ data_segment # before.data))
          => tm_cache \cap {"CFGAnalysis", "DFGAnalysis", "LivenessAnalysis"} = {}
    /\ (fw_pc = "done" /\ body # original)
          => "LivenessAnalysis" \notin fw_cache


\* ---------------------------------------------------------------------------
\* The driver under fair scheduling: it is one sequential program, so a step
\* that can be taken is taken.
\* ---------------------------------------------------------------------------
InitDriver ==
    /\ InitRun
    /\ passes = <<"CSE", "TailMergePass", "SimplifyCFGPass">>
    /\ flags = {}

SpecDriver == InitDriver /\ [][NextRun]_vars /\ WF_vars(NextRun)

\* The log entries of the per-function pipeline on fn, in order.
PassesRunOn(fn) ==
    LET idx == SelectSeq([i \in 1..Len(ran) |-> i], LAMBDA i : ran[i].fn = fn)
    IN  [k \in 1..Len(idx) |-> ran[idx[k]].pass]

\* The log positions of fn are consecutive.
RunsTogether(fn) ==
    \A i, j \in 1..Len(ran) :
        (i < j /\ ran[i].fn = fn /\ ran[j].fn = fn)
            => \A h \in i..j : ran[h].fn = fn

\* C24: for every call graph, recursive ones included, the driver comes to
\* an end (or has raised while building the pipeline); when it is done the
\* pipeline has run exactly once, in pipeline order, on every function
\* reachable from the entry function, and at no time has a pass run on a
\* function that is not reachable from the entry function.
C24_DriverTerminatesOncePerFunction ==
    /\ <>(pc \in {"done", "panic"})
    /\ [](pc = "done" =>
            \A fn \in Reachable(callees, EntryFunction) :
                /\ PassesRunOn(fn) = result.value
                /\ RunsTogether(fn))
    /\ [](\A i \in 1..Len(ran) :
            ran[i].fn \in Reachable(callees, EntryFunction) \cup {WholeContext})

\* Mutual recursion entry -> g -> entry with a third function nobody
\* calls: the driver is done, entry and g were run once, the third never.
C24_Witness ==
    /\ pc = "done"
    /\ \E g \in Functions \ {EntryFunction} :
          /\ g \in Range(callees[EntryFunction])
          /\ EntryFunction \in Range(callees[g])
          /\ PassesRunOn(g) = result.value
    /\ PassesRunOn(EntryFunction) = result.value
    /\ Len(result.value) >= 2
    /\ \E h \in Functions : h \notin functions /\ PassesRunOn(h) = <<>>


\* ---------------------------------------------------------------------------
\* The readonly analysis under fair scheduling: run_pass is one sequential
\* loop, so a step that can be taken is taken.
\* ---------------------------------------------------------------------------
\* The contexts of SpecCalls whose functions do nothing, store through
\* their first parameter, or invoke a function of the context.
FixpointArgLists == {<<Var("a")>>, <<Var("b"), Var("a")>>, <<Var("v0"), Var("b")>>}

InitFixpoint ==
    /\ InitCalls
    /\ \A k \in 1..Len(ctx) :
          LET inst == ctx[k].insts[3]
          IN  \/ inst.opcode = "ret"
              \/ inst = Inst("mstore", NoOutput, <<Lit("32"), Var("a")>>)
              \/ /\ inst.opcode = "invoke"
                 /\ inst.operands[1] \in {Label("f"), Label("g"), Label("h")}
                 /\ Tail(inst.operands) \in FixpointArgLists

SpecFixpoint == InitFixpoint /\ [][NextReadonly]_vars /\ WF_vars(NextReadonly)

\* The positions that are True in a vector, counted from 0.
ReadonlyPositions(state) == {i - 1 : i \in {j \in 1..Len(state) : state[j]}}

\* C25: for every context, recursive and mutually recursive call graphs
\* included, the iteration of run_pass comes to an end; at the end the
\* analysis of any function against the final vectors of all functions
\* gives that function's final vector again, and the stored indices of a
\* function are exactly the readonly positions of its final vector.
C25_TerminatesAtFixedPoint ==
    /\ <>(ro_pc = RoDone)
    /\ [](ro_pc = RoDone =>
            \A k \in 1..Len(ctx) :
                /\ AnalyzeFn(ctx, k, readonly_by_fn) = readonly_by_fn[k]
                /\ readonly_idxs[k] = ReadonlyPositions(readonly_by_fn[k]))

\* f passes a to g, g passes a to h and h writes through a, with g also
\* calling itself: the run has ended after more than one sweep with no
\* first parameter readonly.
C25_Witness ==
    /\ ro_pc = RoDone
    /\ ctx[1].insts[3] = Inst("invoke", NoOutput, <<Label("g"), Var("a")>>)
    /\ ctx[2].insts[3] = Inst("invoke", NoOutput, <<Label("h"), Var("a")>>)
    /\ ctx[3].insts[3] = Inst("mstore", NoOutput, <<Lit("32"), Var("a")>>)
    /\ \A k \in 1..3 : 0 \notin readonly_idxs[k]
    /\ readonly_idxs[1] = {1}


(***************************************************************************)
(* ReadonlyInvokeArgCopyForwardingPass.run_pass, one step of its loops at  *)
(* a time.                                                                 *)
(***************************************************************************)
\* self._prepare(); changed = False; the first iteration of while True begins
StartReadonlyForwarding ==
    /\ fw_pc = "start"
    /\ fw_cache' = Prepare(fw_cache)
    /\ fw_changed' = FALSE
    /\ iter_changed' = FALSE
    /\ sweep_at' = 1
    /\ sweeps' = 1
    /\ fw_pc' = "sweeping"
    /\ UNCHANGED <<original, body, callee_meta>>
    /\ UNCHANGED <<ordVars, runVars, memVars, roVars, tmVars, ccVars>>

\* One instruction of the for loops: anything but an mcopy is skipped, an
\* mcopy is handed to _try_forward_readonly_copy.
TryNextCopy ==
    /\ fw_pc = "sweeping"
    /\ sweep_at <= Len(body)
    /\ IF body[sweep_at].opcode # "mcopy"
       THEN UNCHANGED <<body, iter_changed>>
       ELSE /\ body' = TryForwardReadonlyCopy(body, callee_meta, sweep_at)
            /\ iter_changed' = (iter_changed \/ body' # body)
    /\ sweep_at' = sweep_at + 1
    /\ UNCHANGED <<original, callee_meta, fw_pc, fw_cache, fw_changed, sweeps>>
    /\ UNCHANGED <<ordVars, runVars, memVars, roVars, tmVars, ccVars>>

\* A variant of the end of a sweep that leaves the while loop after the
\* first sweep whether or not it forwarded anything.
EndSweepOnce ==
    /\ fw_pc = "sweeping"
    /\ sweep_at > Len(body)
    /\ fw_cache' = Finish(fw_cache, iter_changed)
    /\ fw_pc' = "done"
    /\ UNCHANGED <<sweep_at, iter_changed, fw_changed, sweeps>>
    /\ UNCHANGED <<original, body, callee_meta>>
    /\ UNCHANGED <<ordVars, runVars, memVars, roVars, tmVars, ccVars>>

\* The end of a sweep: break and self._finish(changed) when nothing was
\* forwarded, otherwise changed = True and another sweep.
EndSweep ==
    /\ fw_pc = "sweeping"
    /\ sweep_at > Len(body)
    /\ IF ~iter_changed
       THEN /\ fw_cache' = Finish(fw_cache, fw_changed)
            /\ fw_pc' = "done"
            /\ UNCHANGED <<sweep_at, iter_changed, fw_changed, sweeps>>
       ELSE /\ fw_changed' = TRUE
            /\ iter_changed' = FALSE
            /\ sweep_at' = 1
            /\ sweeps' = sweeps + 1
            /\ UNCHANGED <<fw_pc, fw_cache>>
    /\ UNCHANGED <<original, body, callee_meta>>
    /\ UNCHANGED <<ordVars, runVars, memVars, roVars, tmVars, ccVars>>

(***************************************************************************)
(* SpecSweeps: the pass, step by step, on two families of blocks.          *)
(*   uses:   src = alloca 32; tmp = alloca 32; other = alloca 32;          *)
(*           t2 = assign tmp; <earlier>; mcopy <tmp or t2>, <src or t2>;   *)
(*           <later>; invoke @callee, <tmp, t2 or other>; stop             *)
(*     where <earlier> and <later> are one more use of tmp, or none, and   *)
(*     <later> may be a jmp that ends the copy's block;                    *)
(*   chains: src = alloca 32; tmp1 .. tmpN = alloca 32;                    *)
(*           mcopy tmp1, src; ..; mcopy tmpN, tmpN-1 (in this order or     *)
(*           reversed); <nothing or mstore src>; invoke @callee, tmpN; stop*)
(*     for N up to MaxChain.                                               *)
(* callee's first position is readonly or not; no position of mut is.      *)
(***************************************************************************)
MaxChain == 3

UsePrelude ==
    <<Alloca("src"), Alloca("tmp"), Alloca("other"),
      Inst("assign", "t2", <<Var("tmp")>>)>>

UseCopyIndex == Len(UsePrelude) + 2

EarlierMenu ==
    {Inst("mload", "w", <<Var("other")>>),
     Inst("invoke", NoOutput, <<Label("callee"), Var("tmp")>>)}

LaterMenu ==
    {Inst("mload", "x", <<Var("other")>>),
     Inst("mload", "x", <<Var("tmp")>>),
     Mstore("tmp"),
     Mcopy("tmp", "other"),
     Mcopy("other", "t2"),
     Inst("invoke", NoOutput, <<Label("mut"), Var("tmp")>>),
     Inst("jmp", NoOutput, <<Label("next")>>)}

UseBlocks ==
    {UsePrelude \o <<pre, Mcopy(d, s), mid,
                     Inst("invoke", NoOutput, <<Label("callee"), Var(a)>>),
                     Inst("stop", NoOutput, <<>>)>> :
        pre \in EarlierMenu, d \in {"tmp", "t2"}, s \in {"src", "t2"},
        mid \in LaterMenu, a \in {"tmp", "t2", "other"}}

ChainNames == <<"src", "tmp1", "tmp2", "tmp3", "tmp4", "tmp5">>

ChainCopies(n) == [i \in 1..n |-> Mcopy(ChainNames[i + 1], ChainNames[i])]

Reversed(s) == [i \in 1..Len(s) |-> s[Len(s) + 1 - i]]

ChainBlock(n, copies, mid) ==
    [i \in 1..(n + 1) |-> Alloca(ChainNames[i])] \o copies \o mid
        \o <<Inst("invoke", NoOutput, <<Label("callee"), Var(ChainNames[n + 1])>>),
             Inst("stop", NoOutput, <<>>)>>

ChainBlocks ==
    UNION {{ChainBlock(n, copies, mid) :
               copies \in {ChainCopies(n), Reversed(ChainCopies(n))},
               mid \in {<<>>, <<Mstore("src")>>}} : n \in 1..MaxChain}

InitSweeps ==
    /\ original \in UseBlocks \cup ChainBlocks
    /\ body = original
    /\ callee_meta \in {[callee |-> CalleeMeta(ro, NoMetadata, "None"),
                         mut |-> CalleeMeta({}, NoMetadata, "None")] :
                           ro \in SUBSET {0}}
    /\ fw_pc = "start"
    /\ fw_cache \in {Analyses, {}}
    /\ sweep_at = 0 /\ iter_changed = FALSE /\ fw_changed = FALSE /\ sweeps = 0
    /\ OrdIdle /\ RunIdle /\ MemIdle /\ RoIdle /\ TmIdle /\ CcIdle

NextSweeps == StartReadonlyForwarding \/ TryNextCopy \/ EndSweep

SpecSweeps == InitSweeps /\ [][NextSweeps]_vars /\ WF_vars(NextSweeps)

\* The variables that name the same memory as the destination of copy ci:
\* its alloca root and every assign alias of it.
AliasesOfDst(b, ci) ==
    {v \in {b[i].output : i \in 1..Len(b)} \ {NoOutput} :
        AssignRootVar(b, v) = AssignRootVar(b, b[ci].operands[3].n)}

\* The uses <<index, operand>> of the destination of copy ci.
UsesOfDst(b, ci) ==
    {u \in (1..Len(b)) \X (1..Len(b)) :
        /\ u[2] <= Len(b[u[1]].operands)
        /\ IsVariable(b[u[1]].operands[u[2]])
        /\ b[u[1]].operands[u[2]].n \in AliasesOfDst(b, ci)}

\* Use u is a readonly argument position of an invoke in the block of copy
\* ci and not before the copy.
ReadonlyInvokeUseAfter(b, meta, ci, u) ==
    /\ b[u[1]].opcode = "invoke"
    /\ u[2] >= 2
    /\ IsLabel(b[u[1]].operands[1])
    /\ b[u[1]].operands[1].n \in DOMAIN meta
    /\ (u[2] - 2) \in meta[b[u[1]].operands[1].n].readonly_idxs
    /\ u[1] > ci
    /\ \A j \in ci..(u[1] - 1) : b[j].opcode \notin BlockTerminators

\* The destination of copy ci is an alloca staged for readonly invokes only.
OnlyStagedUses(b, meta, ci) ==
    /\ IsVariable(b[ci].operands[3])
    /\ \E i \in 1..Len(b) :
          /\ b[i].opcode \in {"alloca", "calloca"}
          /\ b[i].output \in AliasesOfDst(b, ci)
    /\ \A u \in UsesOfDst(b, ci) :
          \/ b[u[1]].opcode = "assign"
          \/ u = <<ci, 3>>
          \/ ReadonlyInvokeUseAfter(b, meta, ci, u)
    /\ \E u \in UsesOfDst(b, ci) : ReadonlyInvokeUseAfter(b, meta, ci, u)
    /\ ~(/\ IsVariable(b[ci].operands[2])
         /\ b[ci].operands[2].n \in AliasesOfDst(b, ci))

\* C26: whenever the pass comes to a copy and rewrites it, every use of the
\* copy destination's alloca root and of its assign aliases is the operand
\* of an assign, the destination operand of this copy, or a readonly
\* argument position of an invoke in the copy's block after the copy, there
\* is such an invoke use, and the copy's source is not an alias of the
\* destination; a copy for which this fails is left in place, and so is
\* every other instruction.
C26_OnlyStagedCopiesForwarded ==
    (/\ fw_pc = "sweeping"
     /\ sweep_at <= Len(body)
     /\ body[sweep_at].opcode = "mcopy"
     /\ ~OnlyStagedUses(body, callee_meta, sweep_at))
        => TryForwardReadonlyCopy(body, callee_meta, sweep_at) = body

\* The pass has come to  mcopy tmp, src  whose destination is also loaded
\* from, and leaves it alone.
C26_Witness ==
    /\ fw_pc = "sweeping"
    /\ sweep_at = UseCopyIndex
    /\ original \in UseBlocks
    /\ body[sweep_at] = Mcopy("tmp", "src")
    /\ body[sweep_at + 1] = Inst("mload", "x", <<Var("tmp")>>)
    /\ body[sweep_at + 2].operands = <<Label("callee"), Var("tmp")>>
    /\ callee_meta["callee"].readonly_idxs = {0}
    /\ ~OnlyStagedUses(body, callee_meta, sweep_at)


\* The number of copies in a block.
CopyCount(b) == Cardinality({i \in 1..Len(b) : b[i].opcode = "mcopy"})

\* The chains  src -> tmp1 -> .. -> tmpN -> invoke  with nothing in between.
CleanChains == {ChainBlock(n, ChainCopies(n), <<>>) : n \in 1..MaxChain}

\* The invoke of a chain block: its last instruction but one.
ChainInvoke(b) == b[Len(b) - 1]

RetUsePrelude(dst_size) ==
    <<Alloca("src"), Inst("alloca", "dst", <<Lit(dst_size)>>), Alloca("other"),
      Inst("assign", "d2", <<Var("dst")>>), Inst("assign", "s2", <<Var("src")>>)>>

RetUseCopyIndex == Len(RetUsePrelude("32")) + 3

ProducerMenu ==
    {Inst("invoke", NoOutput, <<Label("producer")>> \o args) :
        args \in {<<Var("src")>>, <<Var("s2")>>, <<Var("other")>>,
                  <<Var("other"), Var("src")>>}}

RetEarlierMenu ==
    {Inst("mload", "w", <<Var("other")>>),
     Inst("mload", "w", <<Var("dst")>>),
     Mstore("src"),
     Inst("invoke", NoOutput, <<Label("producer"), Var("src")>>),
     Inst("jmp", NoOutput, <<Label("next")>>)}

RetLaterMenu ==
    {Inst("mload", "x", <<Var("other")>>),
     Inst("mload", "x", <<Var("src")>>),
     Inst("phi", "x", <<Label("next"), Var("dst")>>),
     Inst("invoke", NoOutput, <<Label("producer"), Var("src")>>),
     Inst("jmp", NoOutput, <<Label("next")>>)}

RetUseBlocks ==
    {RetUsePrelude(n) \o <<prod, pre,
                           Inst("mcopy", NoOutput, <<size, Var(s), Var("dst")>>),
                           post,
                           Inst("mload", "v", <<Var(d)>>),
                           Inst("stop", NoOutput, <<>>)>> :
        n \in {"32", "64"}, prod \in ProducerMenu, pre \in RetEarlierMenu,
        size \in {Lit("32"), Lit("64"), Var("other")}, s \in {"src", "s2", "d2"},
        post \in RetLaterMenu, d \in {"dst", "d2"}}

RetUseMeta ==
    {[producer |-> CalleeMeta({}, NoMetadata, "None")]}
    \cup {[producer |-> CalleeMeta({}, count, rb)] :
             count \in {1, 2}, rb \in {"True", "False"}}

InitRetUses ==
    /\ original \in RetUseBlocks
    /\ body = original
    /\ callee_meta \in RetUseMeta
    /\ fw_pc = "return_forwarding"
    /\ fw_cache = Analyses
    /\ SweepIdle
    /\ OrdIdle /\ RunIdle /\ MemIdle /\ RoIdle /\ TmIdle /\ CcIdle

NextRetUses == RunInternalReturnForwarding

SpecRetUses == InitRetUses /\ [][NextRetUses]_vars

\* The variables that name the same memory as v: those with v's assign root.
AliasesOfVar(b, v) ==
    {a \in {b[i].output : i \in 1..Len(b)} \ {NoOutput} :
        AssignRootVar(b, a) = AssignRootVar(b, v)}

\* The uses <<index, operand>> of the variables in names.
UsesOfNames(b, names) ==
    {u \in (1..Len(b)) \X (1..Len(b)) :
        /\ u[2] <= Len(b[u[1]].operands)
        /\ IsVariable(b[u[1]].operands[u[2]])
        /\ b[u[1]].operands[u[2]].n \in names}

\* Instructions i and j are in one basic block.
SameBlock(b, i, j) ==
    \A k \in Min({i, j})..(-Min({-i, -j}) - 1) : b[k].opcode \notin BlockTerminators

\* v's root is an alloca or calloca of the given literal size.
RootIsAllocaOfSize(b, v, size) ==
    \E i \in 1..Len(b) :
        /\ b[i].opcode \in {"alloca", "calloca"}
        /\ b[i].output = AssignRootVar(b, v)
        /\ size.k = "lit"
        /\ b[i].operands[1] = size

\* Instruction j is an invoke of a callee with a memory return buffer and
\* as many parameters as the invoke has arguments.
FillsReturnBuffer(b, meta, j) ==
    /\ b[j].opcode = "invoke"
    /\ IsLabel(b[j].operands[1])
    /\ b[j].operands[1].n \in DOMAIN meta
    /\ meta[b[j].operands[1].n].invoke_param_count = Len(b[j].operands) - 1
    /\ meta[b[j].operands[1].n].has_memory_return_buffer_param = "True"

\* The conditions under which copy ci may be forwarded.
ReturnBufferShape(b, meta, ci) ==
    LET size == b[ci].operands[1]
        src == b[ci].operands[2]
        dst == b[ci].operands[3]
        src_uses == {u \in UsesOfNames(b, AliasesOfVar(b, src.n)) :
                        b[u[1]].opcode # "assign" /\ u # <<ci, 2>>}
        dst_uses == {u \in UsesOfNames(b, AliasesOfVar(b, dst.n)) :
                        b[u[1]].opcode # "assign" /\ u # <<ci, 3>>}
    IN  /\ IsVariable(src) /\ IsVariable(dst)
        /\ AssignRootVar(b, src.n) # AssignRootVar(b, dst.n)
        /\ RootIsAllocaOfSize(b, src.n, size)
        /\ RootIsAllocaOfSize(b, dst.n, size)
        /\ Cardinality({u[1] : u \in src_uses}) = 1
        /\ \A u \in src_uses :
              /\ u[2] = 2
              /\ FillsReturnBuffer(b, meta, u[1])
              /\ u[1] < ci
              /\ SameBlock(b, u[1], ci)
        /\ \A u \in dst_uses :
              /\ b[u[1]].opcode # "phi"
              /\ u[1] > ci
              /\ SameBlock(b, ci, u[1])

\* C27: a copy that lacks one of the conditions (dst and ret_buf with
\* distinct alloca/calloca roots of the literal size of the copy; ret_buf
\* and its aliases used only as the source of this copy and as operand 1 of
\* exactly one invoke, in the copy's block and before the copy, of a callee
\* with matching invoke_param_count and a memory return buffer; every other
\* use of dst and its aliases, renames aside, a non-phi instruction of the
\* copy's block after the copy) is not rewritten, and is still in place
\* when the pass is done.
C27_OnlyReturnBufferCopiesForwarded ==
    /\ \A ci \in 1..Len(body) :
          (body[ci].opcode = "mcopy" /\ ~ReturnBufferShape(body, callee_meta, ci))
              => TryForwardInternalReturnCopy(body, callee_meta, ci) = body
    /\ (fw_pc = "done" /\ ~ReturnBufferShape(original, callee_meta, RetUseCopyIndex))
          => body = original

\* Two invokes of producer fill ret_buf before the copy: the pass is done
\* and the copy is still there.
C27_Witness ==
    /\ fw_pc = "done"
    /\ original[RetUseCopyIndex - 2] = Inst("invoke", NoOutput, <<Label("producer"), Var("src")>>)
    /\ original[RetUseCopyIndex - 1] = Inst("invoke", NoOutput, <<Label("producer"), Var("src")>>)
    /\ original[RetUseCopyIndex] = Mcopy("dst", "src")
    /\ original[RetUseCopyIndex + 1] = Inst("mload", "x", <<Var("other")>>)
    /\ Producer(original, "dst") = 2 /\ original[2].operands = <<Lit("32")>>
    /\ InvokeHasReturnBuffer(callee_meta, original[RetUseCopyIndex - 1])
    /\ body = original


(***************************************************************************)
(* SpecSignature: TailMergePass on  main: jnz cond1, @t1, @t2  and two     *)
(* tail blocks whose bodies compute with three block-local variables, in   *)
(* every order of the names of the block.                                  *)
(***************************************************************************)
\* An operand that is neither a variable, a literal nor a label.
OtherOperand == [k |-> "other", n |-> "0"]

\* The bodies over the local variables x, y, z.
SigBodies(x, y, z) ==
    {<<Inst("assign", x, <<Lit("1")>>), Inst("assign", y, <<Lit("2")>>),
       Inst("add", z, <<Var(p), Var(q)>>), Revert>> : p \in {x, y}, q \in {x, y}}
    \cup
    {<<Inst("assign", x, <<Lit("1")>>), Inst("assign", y, <<Lit("2")>>),
       Inst("add", z, <<Var(x), Lit("2")>>), Revert>>,
     <<Inst("assign", x, <<Lit("1")>>), Inst("assign", y, <<Lit("3")>>),
       Inst("add", z, <<Var(x), Var(y)>>), Revert>>,
     <<Inst("assign", x, <<Lit("1")>>), Inst("assign", y, <<Lit("2")>>),
       Inst("sub", z, <<Var(x), Var(y)>>), Revert>>,
     <<Inst("assign", x, <<Lit("1")>>), Inst("assign", y, <<Lit("2")>>),
       Inst("mstore", NoOutput, <<Var(x), Var(y)>>), Revert>>,
     <<Inst("assign", x, <<Lit("1")>>), Inst("assign", y, <<Label("main")>>),
       Inst("add", z, <<Var(x), Var(y)>>), Revert>>,
     <<Inst("assign", x, <<Lit("1")>>), Inst("assign", y, <<Label("t1")>>),
       Inst("add", z, <<Var(x), Var(y)>>), Revert>>,
     <<Inst("assign", x, <<Lit("1")>>), Inst("add", z, <<Var(x), Var(x)>>), Revert>>,
     <<Inst("assign", x, <<Lit("1")>>), Inst("assign", y, <<OtherOperand>>),
       Inst("add", z, <<Var(x), Var(y)>>), Revert>>,
     <<Inst("assign", x, <<OtherOperand>>),
       Inst("jmp", NoOutput, <<Label("t1")>>)>>,
     <<Inst("phi", x, <<Label("main"), Var("cond1")>>),
       Inst("assign", y, <<OtherOperand>>), Revert>>,
     <<Inst("assign", x, <<Var("cond1")>>), Inst("assign", y, <<Lit("2")>>),
       Inst("add", z, <<Var(x), Var(y)>>), Revert>>}

SigLocals == << <<"a0", "a1", "a2">>, <<"b0", "b1", "b2">> >>

\* Every order of the three names.
Orders(names) ==
    {<<names[p[1]], names[p[2]], names[p[3]]>> :
        p \in {q \in (1..3) \X (1..3) \X (1..3) : Cardinality(Range(q)) = 3}}

SigTails(i) ==
    UNION {{Block(TailNames[i], insts) : insts \in SigBodies(o[1], o[2], o[3])} :
              o \in Orders(SigLocals[i])}

SigFunctions ==
    {<<Block("main", <<Inst("source", "cond1", <<>>),
                       Inst("jnz", NoOutput,
                            <<Var("cond1"), Label(TailNames[1]), Label(TailNames[2])>>)>>),
       b1, b2>> : b1 \in SigTails(1), b2 \in SigTails(2)}

InitSignature ==
    /\ blocks \in SigFunctions
    /\ data_segment = <<>>
    /\ before = [blocks |-> blocks, data |-> data_segment]
    /\ tm_pc = "start"
    /\ tm_cache = Analyses
    /\ OrdIdle /\ RunIdle /\ MemIdle /\ RoIdle /\ FwIdle /\ CcIdle

NextSignature == TailMergeRunPass

SpecSignature == InitSignature /\ [][NextSignature]_vars

\* A candidate of the merge: halting, no phi, reads only its own variables.
IsCandidate(bb) == IsHalting(bb) /\ ~HasPhi(bb) /\ ~ReadsLiveIn(bb)

\* Some operand is neither a variable, a literal nor a label.
HasOtherOperand(bb) ==
    \E i \in 1..Len(bb.instructions) :
        \E op \in Range(bb.instructions[i].operands) :
            op.k \notin {"var", "lit", "label"}

\* C29: two candidate blocks have equal signatures iff they are equal up
\* to a one-to-one renaming of their variables (same length and, place by
\* place, same opcode, same literals and labels, same pattern of variable
\* identities in outputs and operands); the signature of a candidate with
\* an operand that is neither a variable, a literal nor a label is a
\* CompilerPanic, which leaves the pass with the function untouched.
C29_SignatureEqualIffRenaming ==
    LET bbs == before.blocks
    IN  /\ \A i, j \in 2..Len(bbs) :
              (/\ IsCandidate(bbs[i]) /\ ~HasOtherOperand(bbs[i])
               /\ IsCandidate(bbs[j]) /\ ~HasOtherOperand(bbs[j]))
                  => /\ BlockSignature(bbs[i]) # NoSignature
                     /\ (BlockSignature(bbs[i]) = BlockSignature(bbs[j]))
                            <=> Interchangeable(bbs[i].instructions, bbs[j].instructions)
        /\ \A i \in 2..Len(bbs) :
              (IsCandidate(bbs[i]) /\ HasOtherOperand(bbs[i]))
                  => BlockSignature(bbs[i]) = PanicSignature
        /\ tm_pc = "panic" =>
              /\ blocks = bbs
              /\ \E i \in 2..Len(bbs) : IsCandidate(bbs[i]) /\ HasOtherOperand(bbs[i])
        /\ tm_pc = "done" =>
              /\ \A i \in 2..Len(bbs) : ~(IsCandidate(bbs[i]) /\ HasOtherOperand(bbs[i]))
              /\ (Len(blocks) < Len(bbs)) <=>
                    /\ IsCandidate(bbs[2]) /\ IsCandidate(bbs[3])
                    /\ Interchangeable(bbs[2].instructions, bbs[3].instructions)

\* t1 computes  z = add x, y  with its names in one order, t2 with its
\* names in another: equal signatures, and the pass has merged them.
C29_Witness ==
    /\ tm_pc = "done"
    /\ before.blocks[2].instructions =
          <<Inst("assign", "a0", <<Lit("1")>>), Inst("assign", "a1", <<Lit("2")>>),
            Inst("add", "a2", <<Var("a0"), Var("a1")>>), Revert>>
    /\ before.blocks[3].instructions =
          <<Inst("assign", "b2", <<Lit("1")>>), Inst("assign", "b0", <<Lit("2")>>),
            Inst("add", "b1", <<Var("b2"), Var("b0")>>), Revert>>
    /\ BlockSignature(before.blocks[2]) = BlockSignature(before.blocks[3])
    /\ Len(blocks) = 2


\* C30: every step of the iteration leaves the length of each function's
\* vector as it is (the number of the function's invoke parameters) and
\* leaves every entry that is False False; the indices stored at the end
\* hold no position whose entry was False.
C30_OnlyTowardsMutable ==
    /\ [][\A k \in 1..Len(ctx) :
            /\ Len(readonly_by_fn'[k]) = Len(readonly_by_fn[k])
            /\ \A i \in 1..Len(readonly_by_fn[k]) :
                  ~readonly_by_fn[k][i] => ~readonly_by_fn'[k][i]]_vars
    /\ [](\A k \in 1..Len(ctx) :
            Len(readonly_by_fn[k]) = Len(InvokeParams(ctx[k])))
    /\ [](ro_pc = RoDone =>
            \A k \in 1..Len(ctx) :
                \A i \in 1..Len(readonly_by_fn[k]) :
                    ~readonly_by_fn[k][i] => (i - 1) \notin readonly_idxs[k])

\* f passes a to g, g passes a to h, h writes through a: h's first entry
\* is already False in the first sweep, when g's is still True; g's
\* follows in the second sweep.
C30_Witness ==
    /\ ro_pc = 1
    /\ changed = FALSE
    /\ ctx[1].insts[3] = Inst("invoke", NoOutput, <<Label("g"), Var("a")>>)
    /\ ctx[2].insts[3] = Inst("invoke", NoOutput, <<Label("h"), Var("a")>>)
    /\ ctx[3].insts[3] = Inst("mstore", NoOutput, <<Lit("32"), Var("a")>>)
    /\ ~readonly_by_fn[3][1]
    /\ readonly_by_fn[2][1]
    /\ readonly_by_fn[1][1]

============================================================================
